---- MODULE Spec2Model ----
(***************************************************************************)
(* Orchestration layer of the GIMP MCP gateway (gimp_mcp_extensions.py):   *)
(* the macro registry, the preset registry and the batch scheduler of      *)
(* GimpMCPExtensions, driving a tool dispatcher (self.server.call_tool).   *)
(***************************************************************************)
EXTENDS Integers, Sequences, FiniteSets, TLC

\* ------------------------------------------------------------------ bounds
\* Longest operation list given to create_macro.
MaxOps == 2
\* Most files one batch resolves.
MaxFiles == 5
\* Most files in the directory of a batch that runs operations in parallel,
\* requests a concurrency, or has its completion order recorded.
MaxSmallBatch == 3

\* ------------------------------------------------------------- JSON values
\* A persisted file is a sequence of JSON tokens, all of one shape.
P(s) == [t |-> "punct", s |-> s, n |-> 0]
S(s) == [t |-> "string", s |-> s, n |-> 0]
N(n) == [t |-> "number", s |-> "", n |-> n]

\* Keys in the order json.dump writes them (the dict's insertion order is
\* replaced by one canonical order: dict equality ignores order).
KeyOrder ==
    << "adjustment", "brightness", "contrast", "filter_name", "parameters",
       "radius", "size", "strength" >>

\* The keys whose value is itself a mapping.
MapKeys == {"parameters"}
\* The keys whose value is a string.
StringKeys == {"adjustment", "filter_name"}

KeysOf(m) == SelectSeq(KeyOrder, LAMBDA k : k \in DOMAIN m)

RECURSIVE DumpNumMembers(_, _)
DumpNumMembers(m, keys) ==
    IF keys = << >> THEN << >>
    ELSE << S(Head(keys)), N(m[Head(keys)]) >> \o DumpNumMembers(m, Tail(keys))

\* json.dump of a mapping of numbers, e.g. {"radius": 1}.
DumpNumMap(m) == << P("{") >> \o DumpNumMembers(m, KeysOf(m)) \o << P("}") >>

RECURSIVE DumpMembers(_, _)
DumpMembers(m, keys) ==
    IF keys = << >> THEN << >>
    ELSE LET k == Head(keys)
             v == IF k \in MapKeys THEN DumpNumMap(m[k])
                  ELSE IF k \in StringKeys THEN << S(m[k]) >>
                  ELSE << N(m[k]) >>
         IN  << S(k) >> \o v \o DumpMembers(m, Tail(keys))

\* json.dump of an argument or settings mapping.
DumpMap(m) == << P("{") >> \o DumpMembers(m, KeysOf(m)) \o << P("}") >>

\* json.dump of an operation: the keys it has, "tool" before "arguments".
DumpOperation(op) ==
    << P("{") >>
        \o (IF "tool" \in DOMAIN op THEN << S("tool"), S(op.tool) >> ELSE << >>)
        \o (IF "arguments" \in DOMAIN op
            THEN << S("arguments") >> \o DumpMap(op.arguments) ELSE << >>)
        \o << P("}") >>

RECURSIVE DumpOperations(_)
DumpOperations(ops) ==
    IF ops = << >> THEN << >>
    ELSE DumpOperation(Head(ops)) \o DumpOperations(Tail(ops))

\* A dump that leaves the description out.
JsonDumpMacroNoDescription(m) ==
    << P("{"), S("name"), S(m.name), S("operations"), P("[") >>
        \o DumpOperations(m.operations)
        \o << P("]"), S("created_at"), N(m.created_at), P("}") >>

\* json.dump(macro_data, f): name, description, operations, created_at.
JsonDumpMacro(m) ==
    << P("{"), S("name"), S(m.name), S("description"), S(m.description),
       S("operations"), P("[") >>
        \o DumpOperations(m.operations)
        \o << P("]"), S("created_at"), N(m.created_at), P("}") >>

\* json.dump(preset_data, f): name, type, settings, created_at.
JsonDumpPreset(p) ==
    << P("{"), S("name"), S(p.name), S("type"), S(p.type), S("settings") >>
        \o DumpMap(p.settings)
        \o << S("created_at"), N(p.created_at), P("}") >>

\* ------------------------------------------------------------ JSON parsing
\* A parse step answers [ok, val, next]: the value read and the position of
\* the token after it; ok = FALSE is json.load raising.
Failed == [ok |-> FALSE, val |-> 0, next |-> 0]
Got(v, i) == [ok |-> TRUE, val |-> v, next |-> i]
EmptyMap == [k \in {} |-> 0]

IsPunct(toks, i, s) == i <= Len(toks) /\ toks[i] = P(s)
IsString(toks, i) == i <= Len(toks) /\ toks[i].t = "string"
IsNumber(toks, i) == i <= Len(toks) /\ toks[i].t = "number"

RECURSIVE ParseValue(_, _), ParseMembers(_, _, _), ParseElements(_, _, _)
ParseValue(toks, i) ==
    IF IsString(toks, i) THEN Got(toks[i].s, i + 1)
    ELSE IF IsNumber(toks, i) THEN Got(toks[i].n, i + 1)
    ELSE IF IsPunct(toks, i, "{") THEN ParseMembers(toks, i + 1, EmptyMap)
    ELSE IF IsPunct(toks, i, "[") THEN ParseElements(toks, i + 1, << >>)
    ELSE Failed

\* The members of an object, up to its closing brace; a later key wins.
ParseMembers(toks, i, acc) ==
    IF IsPunct(toks, i, "}") THEN Got(acc, i + 1)
    ELSE IF ~IsString(toks, i) THEN Failed
    ELSE LET v == ParseValue(toks, i + 1)
         IN  IF ~v.ok THEN Failed
             ELSE ParseMembers(toks, v.next, (toks[i].s :> v.val) @@ acc)

\* The elements of an array, up to its closing bracket.
ParseElements(toks, i, acc) ==
    IF IsPunct(toks, i, "]") THEN Got(acc, i + 1)
    ELSE LET v == ParseValue(toks, i)
         IN  IF ~v.ok THEN Failed
             ELSE ParseElements(toks, v.next, Append(acc, v.val))

\* json.load(f): one value and nothing after it.
JsonLoad(toks) ==
    LET v == ParseValue(toks, 1)
    IN  IF v.ok /\ v.next = Len(toks) + 1 THEN v ELSE Failed

\* ------------------------------------------------------------------- state
VARIABLES
    macro_registry,   \* self.macro_registry: macro name -> macro_data
    preset_registry,  \* self.preset_registry: preset name -> preset_data
    macro_files,      \* ~/.config/gimp-mcp/macros/<name>.json -> its tokens
    preset_files,     \* ~/.config/gimp-mcp/presets/<name>.json -> its tokens
    pc,               \* where the tool call in progress stands
    macro,            \* run_macro's local: the macro being run
    preset,           \* load_preset's local: the preset being applied
    op_index,         \* run_macro's loop: the operation whose dispatch is awaited
    results,          \* run_macro's local: one mark per attempted operation
    calls,            \* what the dispatcher was asked, in order, in this tool call
    outcomes,         \* how the dispatcher answered each call, in order
    reply,            \* what the tool call returned
    batch,            \* batch_process_advanced's args
    files,            \* batch_process_advanced's local: the resolved files
    task,             \* one process_single_file per entry of files
    semaphore,        \* the value of asyncio.Semaphore(4)
    batch_results,    \* batch_process_advanced's local: results
    completed,        \* observer: the entries of files, in completion order
    history,          \* observer: the last create_macro and what followed it
    request,          \* observer: the tool call in progress, as the caller made it
    current_image,    \* GimpMCPServer.current_image
    current_drawable, \* GimpMCPServer.current_drawable
    pdb,              \* GimpMCPServer.pdb: whether initialize_gimp has set it
    host_calls        \* the host procedures invoked in this tool call, in order

registryVars == << macro_registry, preset_registry, macro_files, preset_files >>
callVars == << pc, macro, preset, op_index, results, calls, outcomes, reply >>
batchVars == << batch, files, task, semaphore, batch_results, completed >>
serverVars == << current_image, current_drawable, pdb, host_calls >>
vars == << registryVars, callVars, batchVars, history, request, serverVars >>

\* ------------------------------------------------------------------ inputs
MacroNames == {"m1", "m2"}

OpA ==
    [tool |-> "adjust_colors",
     arguments |-> [adjustment |-> "brightness-contrast",
                    parameters |-> [brightness |-> 10, contrast |-> 15]]]
OpB ==
    [tool |-> "apply_filter",
     arguments |-> [filter_name |-> "gaussian-blur",
                    parameters |-> [radius |-> 1]]]
\* An operation with no argument map.
OpNoArguments == [tool |-> "apply_filter"]

Operations == {OpA, OpB}
OperationLists == UNION {[1..k -> Operations] : k \in 0..MaxOps}

\* Argument maps of create_macro calls: every operation list under m1, and
\* under m2 one call with no description and one with an invalid operation.
CreateMacroArgs ==
    {[macro_name |-> "m1", operations |-> ops, description |-> "enhance"] :
        ops \in OperationLists}
    \cup {[macro_name |-> "m1", operations |-> << OpA >>, description |-> "soften"],
          [macro_name |-> "m2", operations |-> << OpB, OpA >>],
          [macro_name |-> "m2", operations |-> << OpA, OpNoArguments >>,
           description |-> "broken"]}

PresetNames == {"p1", "p2"}

AdjustmentSettings ==
    [adjustment |-> "brightness-contrast",
     parameters |-> [brightness |-> 10, contrast |-> 15]]
\* Adjustment settings with one more key.
AdjustmentSettingsMore ==
    [adjustment |-> "brightness-contrast",
     parameters |-> [brightness |-> 10, contrast |-> 15],
     strength |-> 1]
\* Adjustment settings with no "parameters".
AdjustmentSettingsLess == [adjustment |-> "levels"]
FilterSettings ==
    [filter_name |-> "gaussian-blur", parameters |-> [radius |-> 1]]
FilterSettingsLess == [filter_name |-> "sharpen"]
BrushSettings == [size |-> 5]

\* Argument maps of save_preset calls: the three routed types and one the
\* code has no route for, under p1; one filter preset under p2.
SavePresetArgs ==
    {[preset_name |-> "p1", preset_type |-> "adjustment", settings |-> st] :
        st \in {AdjustmentSettings, AdjustmentSettingsMore, AdjustmentSettingsLess}}
    \cup {[preset_name |-> "p1", preset_type |-> "filter", settings |-> FilterSettings],
          [preset_name |-> "p1", preset_type |-> "brush", settings |-> BrushSettings],
          [preset_name |-> "p1", preset_type |-> "gradient", settings |-> BrushSettings],
          [preset_name |-> "p2", preset_type |-> "filter", settings |-> FilterSettings],
          [preset_name |-> "p2", preset_type |-> "filter",
           settings |-> FilterSettingsLess]}

\* The input directory, in the order glob lists it.
DirectoryFiles ==
    << "a.jpg", "b.png", "c.jpg", "d.png", "e.jpg", "f.png", "g.jpg", "h.png" >>
Listings(n) == {SubSeq(DirectoryFiles, 1, k) : k \in 0..n}

BatchOperationLists == {<< >>, << OpB >>, << OpA, OpB >>}

\* batch_process_advanced calls, each an argument map and the listing of its
\* input directory: every operation list in either mode, a requested
\* concurrency, and file patterns other than the default (split at the
\* commas).
BatchCalls ==
    LET base(ops) ==
            [input_directory |-> "in", output_directory |-> "out",
             operations |-> ops]
        call(args, listing) == [args |-> args, listing |-> listing]
    IN  {call(base(ops), l) :
            ops \in BatchOperationLists, l \in Listings(MaxFiles)}
        \cup {call(base(<< >>) @@ [parallel |-> TRUE], l) :
                l \in Listings(MaxFiles)}
        \cup {call(base(ops) @@ [parallel |-> TRUE], l) :
                ops \in BatchOperationLists, l \in Listings(MaxSmallBatch)}
        \cup {call(base(<< >>) @@ [parallel |-> par, concurrency |-> k], l) :
                par \in BOOLEAN, k \in {1, 2, 4, 8},
                l \in Listings(MaxSmallBatch)}
        \cup {call(base(<< >>) @@ [parallel |-> par, file_pattern |-> pat], l) :
                par \in BOOLEAN,
                pat \in {<< "*.tiff" >>, << "*.jpg" >>, << "*.jpg", "*" >>},
                l \in Listings(MaxFiles)}

\* An operation with neither a tool name nor an argument map.
OpEmpty == [k \in {} |-> 0]

\* Argument maps of the create_macro and save_preset calls that are followed
\* call by call: two definitions of m1, one of m2, and operation lists with
\* an operation that lacks one or both of its keys; two presets named p1.
RequestedCreateMacroArgs ==
    {[macro_name |-> "m1", operations |-> << OpA >>, description |-> "enhance"],
     [macro_name |-> "m1", operations |-> << OpB, OpA >>, description |-> "soften"],
     [macro_name |-> "m2", operations |-> << OpB >>],
     [macro_name |-> "m2", operations |-> << OpA, OpNoArguments >>,
      description |-> "broken"],
     [macro_name |-> "m1", operations |-> << OpA, OpEmpty >>,
      description |-> "empty"]}

\* An operation the server has a handler for.
OpBlur == [tool |-> "apply_gaussian_blur", arguments |-> [radius |-> 2]]

\* batch_process_advanced calls dispatched to GimpMCPServer, in either mode.
HostedBatchCalls ==
    {[args |-> [input_directory |-> "in", output_directory |-> "out",
                operations |-> ops, parallel |-> par],
      listing |-> l] :
        ops \in {<< >>, << OpBlur >>}, par \in BOOLEAN, l \in Listings(2)}

\* The directories that exist and can be written to.
ExistingDirectories == {"in", "out"}

\* batch_process_advanced calls with an output directory that exists and
\* with one that does not, in either mode.
SetupBatchCalls ==
    {[args |-> [input_directory |-> "in", output_directory |-> out,
                operations |-> ops, parallel |-> par],
      listing |-> l] :
        out \in {"out", "missing"}, ops \in {<< >>, << OpB >>},
        par \in BOOLEAN, l \in Listings(MaxSmallBatch)}

\* create_macro and save_preset calls that fill the storage directories.
StoringCreateMacroArgs ==
    {[macro_name |-> "m1", operations |-> << OpA >>, description |-> "enhance"],
     [macro_name |-> "m2", operations |-> << OpB >>],
     [macro_name |-> "m3", operations |-> << OpB, OpA >>, description |-> "third"]}

StoringSavePresetArgs ==
    {[preset_name |-> "p1", preset_type |-> "adjustment",
      settings |-> AdjustmentSettings],
     [preset_name |-> "p2", preset_type |-> "brush", settings |-> BrushSettings]}

\* create_macro and save_preset calls that write over one another.
OverwritingCreateMacroArgs ==
    {[macro_name |-> "m1", operations |-> << OpA >>, description |-> "enhance"],
     [macro_name |-> "m1", operations |-> << OpB >>],
     [macro_name |-> "m2", operations |-> << OpB, OpA >>, description |-> "second"]}

OverwritingSavePresetArgs ==
    {[preset_name |-> "p1", preset_type |-> "adjustment",
      settings |-> AdjustmentSettings],
     [preset_name |-> "p1", preset_type |-> "filter", settings |-> FilterSettings],
     [preset_name |-> "p2", preset_type |-> "brush", settings |-> BrushSettings]}

RequestedSavePresetArgs ==
    {[preset_name |-> "p1", preset_type |-> "adjustment",
      settings |-> AdjustmentSettings],
     [preset_name |-> "p1", preset_type |-> "filter", settings |-> FilterSettings]}

\* Readings of asyncio.get_event_loop().time().
Times == {1, 2}

\* How the dispatcher answers a call: the handler's success text, the
\* handler's failure text (the host rejected the step), or an exception.
Outcomes == {"success", "host_failure", "raise"}

\* How a write of a persisted file ends: written whole; mkdir or open raised
\* and the file is as before; json.dump raised and the file is cut short.
WriteOutcomes == {"written", "not_written", "truncated"}

\* ----------------------------------------------------------------- helpers
Get(args, key, default) == IF key \in DOMAIN args THEN args[key] ELSE default

\* A store that keeps the entry a key already has.
PutIfAbsent(d, key, value) ==
    [k \in DOMAIN d \cup {key} |-> IF k \in DOMAIN d THEN d[k] ELSE value]

\* d[key] = value on a dict.
Put(d, key, value) ==
    [k \in DOMAIN d \cup {key} |-> IF k = key THEN value ELSE d[k]]

NoReply ==
    [kind |-> "none", name |-> "", results |-> << >>, succeeded |-> 0, total |-> 0]
Reply(kind, name) == [NoReply EXCEPT !.kind = kind, !.name = name]
NoBatch ==
    [input_directory |-> "", output_directory |-> "", operations |-> << >>]
NoMacro == [name |-> "", description |-> "", operations |-> << >>, created_at |-> 0]
NoPreset == [name |-> "", type |-> "", settings |-> EmptyMap, created_at |-> 0]
NoRequest == [via |-> "", tool |-> "", arguments |-> EmptyMap, known |-> FALSE]
NoDrawable == [image |-> "none", layer |-> ""]

\* A tool call as the caller made it: the dispatcher called, the tool name,
\* the argument map, and whether the macro or preset name it gives was in
\* the registry then.
Request(via, tool, arguments, known) ==
    [via |-> via, tool |-> tool, arguments |-> arguments, known |-> known]
NoHistory == [trail |-> "none", args |-> [macro_name |-> "", operations |-> << >>]]

\* What open(path, "w") followed by a raising json.dump leaves behind.
Truncated(tokens) == SubSeq(tokens, 1, 3)

\* The files after a write of <name>.json ended as `how`.
WriteFile(fs, name, tokens, how) ==
    IF how = "written" THEN Put(fs, name, tokens)
    ELSE IF how = "truncated" THEN Put(fs, name, Truncated(tokens))
    ELSE fs

\* save_macro_to_disk(name, macro_data).
save_macro_to_disk(name, macro_data, how) ==
    macro_files' = WriteFile(macro_files, name, JsonDumpMacro(macro_data), how)

\* ---------------------------------------------------------- macro registry
\* A validation that looks at the first operation only.
InvalidOperationFormatFirst(operations) ==
    /\ operations # << >>
    /\ "tool" \notin DOMAIN operations[1]
            \/ "arguments" \notin DOMAIN operations[1]

\* create_macro's validation loop: some operation lacks "tool" or "arguments".
InvalidOperationFormat(operations) ==
    \E i \in 1..Len(operations) :
        "tool" \notin DOMAIN operations[i]
            \/ "arguments" \notin DOMAIN operations[i]

MacroData(args, now) ==
    [name |-> args.macro_name,
     description |-> Get(args, "description", ""),
     operations |-> args.operations,
     created_at |-> now]

\* create_macro(args): validate, store, persist.
create_macro(args, now, how) ==
    /\ pc = "idle"
    /\ IF InvalidOperationFormat(args.operations)
       THEN /\ reply' = Reply("invalid_operation_format", args.macro_name)
            /\ UNCHANGED << macro_registry, macro_files >>
       ELSE /\ macro_registry' =
                    Put(macro_registry, args.macro_name, MacroData(args, now))
            /\ save_macro_to_disk(args.macro_name, MacroData(args, now), how)
            /\ reply' = IF how = "written"
                        THEN Reply("macro_created", args.macro_name)
                        ELSE Reply("raised", args.macro_name)
    /\ pc' = "returned"
    /\ UNCHANGED << preset_registry, preset_files, macro, preset, op_index,
                    results, calls, outcomes >>

\* The dispatcher call made for one operation.
CallFor(operation) == [tool |-> operation.tool, arguments |-> operation.arguments]

\* The line run_macro appends to results, by how the dispatch ended.
Mark(operation, outcome) ==
    IF outcome = "raise"
    THEN [mark |-> "failed", tool |-> operation.tool, text |-> "error"]
    ELSE [mark |-> "succeeded", tool |-> operation.tool, text |-> outcome]

\* A loop that goes on to the next operation after an exception.
NextOperationNoBreak(outcome, i, n) == i + 1

\* Where run_macro's loop goes after operation i of n: break on an
\* exception, the next operation otherwise.
NextOperation(outcome, i, n) == IF outcome = "raise" THEN n + 1 ELSE i + 1

\* run_macro from the top of its loop: dispatch operation `next` and await
\* it, or return the report when the list is exhausted.
RunFrom(next, res) ==
    /\ results' = res
    /\ IF next <= Len(macro'.operations)
       THEN /\ pc' = "run_macro"
            /\ op_index' = next
            /\ calls' = Append(calls, CallFor(macro'.operations[next]))
            /\ reply' = reply
       ELSE /\ pc' = "returned"
            /\ op_index' = 0
            /\ calls' = calls
            /\ reply' = [Reply("macro_executed", macro'.name)
                            EXCEPT !.results = res]

\* A lookup that falls back on some entry when the name has none.
LookupOrAny(registry, name) ==
    IF registry = EmptyMap THEN [found |-> FALSE, entry |-> EmptyMap]
    ELSE [found |-> TRUE,
          entry |-> IF name \in DOMAIN registry THEN registry[name]
                    ELSE registry[CHOOSE n \in DOMAIN registry : TRUE]]

\* "name not in registry" and registry[name].
Lookup(registry, name) ==
    IF name \in DOMAIN registry
    THEN [found |-> TRUE, entry |-> registry[name]]
    ELSE [found |-> FALSE, entry |-> EmptyMap]

\* run_macro(args) up to its first await.
run_macro(macro_name) ==
    /\ pc = "idle"
    /\ IF ~Lookup(macro_registry, macro_name).found
       THEN /\ pc' = "returned"
            /\ reply' = Reply("macro_not_found", macro_name)
            /\ UNCHANGED << macro, op_index, results, calls >>
       ELSE /\ macro' = Lookup(macro_registry, macro_name).entry
            /\ RunFrom(1, << >>)
    /\ UNCHANGED << registryVars, preset, outcomes >>

\* The awaited dispatch returns or raises; run_macro goes on to its next await.
run_macro_resumes(outcome) ==
    /\ pc = "run_macro"
    /\ outcomes' = Append(outcomes, outcome)
    /\ macro' = macro
    /\ preset' = preset
    /\ RunFrom(NextOperation(outcome, op_index, Len(macro.operations)),
               Append(results, Mark(macro.operations[op_index], outcome)))
    /\ UNCHANGED registryVars

\* The tool call's result goes back to the caller.
call_returns ==
    /\ pc = "returned"
    /\ pc' = "idle"
    /\ macro' = NoMacro
    /\ preset' = NoPreset
    /\ op_index' = 0
    /\ results' = << >>
    /\ calls' = << >>
    /\ outcomes' = << >>
    /\ reply' = NoReply
    /\ batch' = NoBatch
    /\ files' = << >>
    /\ task' = << >>
    /\ semaphore' = 0
    /\ batch_results' = << >>
    /\ completed' = << >>
    /\ UNCHANGED registryVars

\* A new process: GimpMCPExtensions.__init__ leaves both registries empty.
new_process ==
    /\ pc = "idle"
    /\ macro_registry' = EmptyMap
    /\ preset_registry' = EmptyMap
    /\ UNCHANGED << macro_files, preset_files, callVars >>

\* A loop that ends at the first file that fails to load.
RECURSIVE LoadFilesAborting(_, _, _)
LoadFilesAborting(registry, fs, order) ==
    IF order = << >> THEN registry
    ELSE LET data == JsonLoad(fs[Head(order)])
         IN  IF data.ok /\ "name" \in DOMAIN data.val
             THEN LoadFilesAborting(Put(registry, data.val["name"], data.val),
                                    fs, Tail(order))
             ELSE registry

\* load_macros_from_disk's loop over the files, in the order glob lists them.
RECURSIVE LoadFiles(_, _, _)
LoadFiles(registry, fs, order) ==
    IF order = << >> THEN registry
    ELSE LET data == JsonLoad(fs[Head(order)])
             loaded == IF data.ok /\ "name" \in DOMAIN data.val
                       THEN Put(registry, data.val["name"], data.val)
                       ELSE registry
         IN  LoadFiles(loaded, fs, Tail(order))

\* The orders in which glob may list the files of a directory.
Orders(fs) ==
    {o \in [1..Cardinality(DOMAIN fs) -> DOMAIN fs] :
        \A i, j \in DOMAIN o : i # j => o[i] # o[j]}

\* load_macros_from_disk().
load_macros_from_disk ==
    /\ pc = "idle"
    /\ \E order \in Orders(macro_files) :
            macro_registry' = LoadFiles(macro_registry, macro_files, order)
    /\ pc' = "returned"
    /\ reply' = Reply("macros_loaded", "")
    /\ UNCHANGED << preset_registry, macro_files, preset_files, macro, preset,
                    op_index, results, calls, outcomes >>

\* --------------------------------------------------------- preset registry
\* save_preset_to_disk(name, preset_data).
save_preset_to_disk(name, preset_data, how) ==
    preset_files' = WriteFile(preset_files, name, JsonDumpPreset(preset_data), how)

PresetData(args, now) ==
    [name |-> args.preset_name,
     type |-> args.preset_type,
     settings |-> args.settings,
     created_at |-> now]

\* save_preset(args): store, persist.
save_preset(args, now, how) ==
    /\ pc = "idle"
    /\ preset_registry' =
            Put(preset_registry, args.preset_name, PresetData(args, now))
    /\ save_preset_to_disk(args.preset_name, PresetData(args, now), how)
    /\ reply' = IF how = "written"
                THEN Reply("preset_saved", args.preset_name)
                ELSE Reply("raised", args.preset_name)
    /\ pc' = "returned"
    /\ UNCHANGED << macro_registry, macro_files, macro, preset, op_index,
                    results, calls, outcomes >>

\* The preset types load_preset has a branch for.
RoutedTypes == {"filter", "adjustment", "brush"}

\* The settings keys the branch of a type reads; a missing one is a KeyError.
KeysRead(type) ==
    IF type = "filter" THEN {"filter_name", "parameters"}
    ELSE IF type = "adjustment" THEN {"adjustment", "parameters"}
    ELSE {}

\* A routing that sends an adjustment preset to the filter tool.
PresetCallAsFilter(p) ==
    IF p.type = "brush"
    THEN [tool |-> "set_brush_settings", arguments |-> p.settings]
    ELSE [tool |-> "apply_filter",
          arguments |-> [k \in KeysRead(p.type) |-> p.settings[k]]]

\* A routing that sends a brush preset to the filter tool.
PresetCallBrushAsFilter(p) ==
    IF p.type = "brush"
    THEN [tool |-> "apply_filter", arguments |-> p.settings]
    ELSE IF p.type = "adjustment"
    THEN [tool |-> "adjust_colors",
          arguments |-> [k \in KeysRead(p.type) |-> p.settings[k]]]
    ELSE [tool |-> "apply_filter",
          arguments |-> [k \in KeysRead(p.type) |-> p.settings[k]]]

\* The dispatcher call load_preset makes for a preset of a routed type.
PresetCall(p) ==
    IF p.type = "filter"
    THEN [tool |-> "apply_filter",
          arguments |-> [filter_name |-> p.settings["filter_name"],
                         parameters |-> p.settings["parameters"]]]
    ELSE IF p.type = "adjustment"
    THEN [tool |-> "adjust_colors",
          arguments |-> [adjustment |-> p.settings["adjustment"],
                         parameters |-> p.settings["parameters"]]]
    ELSE [tool |-> "set_brush_settings", arguments |-> p.settings]

\* load_preset(args) up to its await, or to its return when it makes no call.
load_preset(preset_name) ==
    /\ pc = "idle"
    /\ IF ~Lookup(preset_registry, preset_name).found
       THEN /\ pc' = "returned"
            /\ reply' = Reply("preset_not_found", preset_name)
            /\ UNCHANGED << preset, calls >>
       ELSE LET p == Lookup(preset_registry, preset_name).entry
            IN  /\ preset' = p
                /\ IF p.type \notin RoutedTypes
                   THEN /\ pc' = "returned"
                        /\ reply' = Reply("preset_applied", preset_name)
                        /\ calls' = calls
                   ELSE IF ~(KeysRead(p.type) \subseteq DOMAIN p.settings)
                   THEN /\ pc' = "returned"
                        /\ reply' = Reply("raised", preset_name)
                        /\ calls' = calls
                   ELSE /\ pc' = "load_preset"
                        /\ reply' = reply
                        /\ calls' = Append(calls, PresetCall(p))
    /\ UNCHANGED << registryVars, macro, op_index, results, outcomes >>

\* The awaited dispatch returns or raises; load_preset returns or raises.
load_preset_resumes(outcome) ==
    /\ pc = "load_preset"
    /\ outcomes' = Append(outcomes, outcome)
    /\ pc' = "returned"
    /\ reply' = IF outcome = "raise"
                THEN Reply("raised", preset.name)
                ELSE Reply("preset_applied", preset.name)
    /\ UNCHANGED << registryVars, macro, preset, op_index, results, calls >>

\* load_presets_from_disk().
load_presets_from_disk ==
    /\ pc = "idle"
    /\ \E order \in Orders(preset_files) :
            preset_registry' = LoadFiles(preset_registry, preset_files, order)
    /\ pc' = "returned"
    /\ reply' = Reply("presets_loaded", "")
    /\ UNCHANGED << macro_registry, macro_files, preset_files, macro, preset,
                    op_index, results, calls, outcomes >>

\* ------------------------------------------------------ GimpMCPServer tools
\* The names call_tool has a branch for.
ServerTools ==
    {"create_image", "open_image", "save_image", "create_layer",
     "apply_gaussian_blur", "adjust_brightness_contrast",
     "adjust_hue_saturation", "select_rectangle", "scale_image",
     "get_image_info", "run_procedure"}

\* The names call_advanced_tool has a branch for.
AdvancedTools ==
    {"create_animated_gif", "apply_style_transfer", "generate_pattern",
     "create_composite", "extract_foreground", "create_hdr", "panorama_stitch",
     "face_detection", "color_match", "create_macro", "run_macro",
     "save_preset", "load_preset", "batch_process_advanced"}

\* The branches of call_advanced_tool that name a method the class lacks.
UndefinedHandlers ==
    {"create_hdr", "panorama_stitch", "face_detection", "color_match"}

\* Whether the if/elif chain of a dispatcher has a branch for the name.
InTable(table, name) == name \in table

\* The keys a handler reads with args[...], in the order it reads them.
RequiredKeys(tool) ==
    CASE tool \in {"create_image", "scale_image"} -> << "width", "height" >>
      [] tool \in {"open_image", "save_image"} -> << "filepath" >>
      [] tool = "create_layer" -> << "name" >>
      [] tool = "apply_gaussian_blur" -> << "radius" >>
      [] tool = "adjust_brightness_contrast" -> << "brightness", "contrast" >>
      [] tool = "select_rectangle" -> << "x", "y", "width", "height" >>
      [] tool = "run_procedure" -> << "procedure_name", "arguments" >>
      [] tool \in {"create_macro"} -> << "macro_name", "operations" >>
      [] tool = "run_macro" -> << "macro_name" >>
      [] tool = "save_preset" -> << "preset_name", "preset_type", "settings" >>
      [] tool = "load_preset" -> << "preset_name" >>
      [] tool = "batch_process_advanced" ->
            << "input_directory", "output_directory", "operations" >>
      [] OTHER -> << >>

\* The required keys an argument map lacks, in the order they are read.
MissingKeys(tool, arguments) ==
    SelectSeq(RequiredKeys(tool), LAMBDA k : k \notin DOMAIN arguments)

\* What a handler requires of the server before it reads its arguments:
\* "if not self.current_image" or "if not self.current_drawable" as its
\* first statement.
GuardBeforeKeys(tool) ==
    CASE tool \in {"create_layer", "select_rectangle", "scale_image",
                   "get_image_info"} -> "image"
      [] tool \in {"apply_gaussian_blur", "adjust_brightness_contrast",
                   "adjust_hue_saturation"} -> "drawable"
      [] OTHER -> "none"

\* What a handler requires of the server after it has read its arguments.
GuardAfterKeys(tool) == IF tool = "save_image" THEN "image" ELSE "none"

\* Whether the server meets a handler's requirement.
Meets(guard, image, drawable) ==
    CASE guard = "image" -> image # "none"
      [] guard = "drawable" -> drawable # NoDrawable
      [] OTHER -> TRUE

\* The text a handler returns when the server does not meet it.
GuardReply(guard) ==
    IF guard = "image" THEN Reply("no_image", "") ELSE Reply("no_drawable", "")

\* The handlers that test the status the host procedure returns.
ChecksStatus ==
    {"apply_gaussian_blur", "adjust_brightness_contrast",
     "adjust_hue_saturation", "run_procedure"}

\* The image objects the host hands out.
Images == {"i1", "i2"}

\* How the host answers a handler: the handler's try block runs to its end;
\* the procedure returns a status other than SUCCESS; an exception is raised
\* before the handler has stored anything; and for open_image: the path does
\* not exist, file_load returns nothing, list_layers raises after the image
\* is stored, or the image has no layers.
HostOutcomes(tool) ==
    {"success", "raise"}
        \cup (IF tool \in ChecksStatus THEN {"failure"} ELSE {})
        \cup (IF tool = "open_image"
              THEN {"not_found", "load_failed", "raise_after_image", "no_layers"}
              ELSE {})

\* What a server tool call leaves of the call in flight: a reply, and nothing
\* of the orchestration state.
ServerReturns(r) ==
    /\ pc' = "returned"
    /\ reply' = r
    /\ UNCHANGED << macro, preset, op_index, results, calls, outcomes >>

\* A handler's try block with the host answering: the references it stores
\* and the text it returns.
Handler(name, arguments, host) ==
    CASE host = "not_found" ->
            /\ ServerReturns(Reply("file_not_found", name))
            /\ UNCHANGED << current_image, current_drawable, host_calls >>
      [] host \in {"failure", "load_failed"} ->
            /\ ServerReturns(Reply("failed", name))
            /\ host_calls' = Append(host_calls, name)
            /\ UNCHANGED << current_image, current_drawable >>
      [] host = "raise" ->
            /\ ServerReturns(Reply("handler_error", name))
            /\ host_calls' = Append(host_calls, name)
            /\ UNCHANGED << current_image, current_drawable >>
      [] host = "raise_after_image" ->
            /\ ServerReturns(Reply("handler_error", name))
            /\ host_calls' = Append(host_calls, name)
            /\ \E image \in Images : current_image' = image
            /\ UNCHANGED current_drawable
      [] host = "no_layers" ->
            /\ ServerReturns(Reply("done", name))
            /\ host_calls' = Append(host_calls, name)
            /\ \E image \in Images : current_image' = image
            /\ UNCHANGED current_drawable
      [] OTHER ->
            /\ ServerReturns(Reply("done", name))
            /\ host_calls' = Append(host_calls, name)
            /\ CASE name = "create_image" ->
                        \E image \in Images :
                            /\ current_image' = image
                            /\ current_drawable' = [image |-> image, layer |-> "Background"]
                 [] name = "open_image" ->
                        \E image \in Images :
                            /\ current_image' = image
                            /\ current_drawable' = [image |-> image, layer |-> "first"]
                 [] name = "create_layer" ->
                        /\ current_drawable' = [image |-> current_image, layer |-> arguments["name"]]
                        /\ UNCHANGED current_image
                 [] OTHER -> UNCHANGED << current_image, current_drawable >>

\* GimpMCPServer's dispatcher: the availability test, the if/elif chain, the
\* handler's own tests in the order the handler makes them, and the except
\* clause that turns a KeyError of args[...] into an error text.
call_tool(name, arguments, host) ==
    /\ pc = "idle"
    /\ LET before == GuardBeforeKeys(name)
           after == GuardAfterKeys(name)
           missing == MissingKeys(name, arguments)
           refused(r) == /\ ServerReturns(r)
                         /\ UNCHANGED << current_image, current_drawable, host_calls >>
       IN  IF ~pdb THEN refused(Reply("gimp_unavailable", ""))
           ELSE IF ~InTable(ServerTools, name) THEN refused(Reply("unknown_tool", name))
           ELSE IF ~Meets(before, current_image, current_drawable) THEN refused(GuardReply(before))
           ELSE IF missing # << >> THEN refused(Reply("error", missing[1]))
           ELSE IF ~Meets(after, current_image, current_drawable) THEN refused(GuardReply(after))
           ELSE Handler(name, arguments, host)
    /\ UNCHANGED << registryVars, pdb >>

\* The same dispatcher as a function of the server's state, for a caller
\* that awaits it in the middle of a call of its own: the kind of text
\* returned, the references the server holds afterwards, and the image the
\* host procedure acted on ("none" when no procedure ran on an image).
\* loaded is the image the host makes of the file or of the creation.
Served(name, arguments, host, image, drawable, ready, loaded) ==
    LET before == GuardBeforeKeys(name)
        after == GuardAfterKeys(name)
        missing == MissingKeys(name, arguments)
        target == IF name \in {"open_image", "create_image", "run_procedure"}
                  THEN "none"
                  ELSE IF before = "drawable" THEN drawable.image
                  ELSE image
        answer(kind, i, d, on) ==
            [kind |-> kind, image |-> i, drawable |-> d, on |-> on]
        refused(kind) == answer(kind, image, drawable, "none")
    IN  IF ~ready THEN refused("gimp_unavailable")
        ELSE IF ~InTable(ServerTools, name) THEN refused("unknown_tool")
        ELSE IF ~Meets(before, image, drawable) THEN refused(GuardReply(before).kind)
        ELSE IF missing # << >> THEN refused("error")
        ELSE IF ~Meets(after, image, drawable) THEN refused(GuardReply(after).kind)
        ELSE CASE host = "not_found" -> refused("file_not_found")
               [] host \in {"failure", "load_failed"} ->
                    answer("failed", image, drawable, target)
               [] host = "raise" -> answer("handler_error", image, drawable, target)
               [] host = "raise_after_image" ->
                    answer("handler_error", loaded, drawable, "none")
               [] host = "no_layers" -> answer("done", loaded, drawable, "none")
               [] OTHER ->
                    CASE name = "create_image" ->
                            answer("done", loaded,
                                   [image |-> loaded, layer |-> "Background"], "none")
                      [] name = "open_image" ->
                            answer("done", loaded,
                                   [image |-> loaded, layer |-> "first"], "none")
                      [] name = "create_layer" ->
                            answer("done", image,
                                   [image |-> image, layer |-> arguments["name"]],
                                   target)
                      [] OTHER -> answer("done", image, drawable, target)

\* initialize_gimp with GIMP importable: the server gets its procedure
\* database.
initialize_gimp ==
    /\ pc = "idle"
    /\ ~pdb
    /\ pdb' = TRUE
    /\ UNCHANGED << current_image, current_drawable, host_calls >>

\* An exception that leaves call_advanced_tool: the caller gets no result
\* list, and nothing was stored.
Raises(exception, what) ==
    /\ pc' = "returned"
    /\ reply' = [Reply("raised", what) EXCEPT !.results = << exception >>]
    /\ UNCHANGED << registryVars, macro, preset, op_index, results, calls, outcomes >>

\* The calls made of the server's dispatcher: every tool with the keys its
\* handler reads, with some or all of them missing, and names the chain has
\* no branch for.
ServerRequests ==
    LET rq(name, arguments) == [name |-> name, arguments |-> arguments]
    IN  {rq("create_image", [width |-> 8, height |-> 6]),
         rq("create_image", [width |-> 8]),
         rq("create_image", EmptyMap),
         rq("open_image", [filepath |-> "a.png"]),
         rq("open_image", EmptyMap),
         rq("save_image", [filepath |-> "out.png"]),
         rq("save_image", EmptyMap),
         rq("create_layer", [name |-> "new"]),
         rq("create_layer", EmptyMap),
         rq("apply_gaussian_blur", [radius |-> 2]),
         rq("apply_gaussian_blur", EmptyMap),
         rq("adjust_brightness_contrast", [brightness |-> 10, contrast |-> 5]),
         rq("adjust_brightness_contrast", [brightness |-> 10]),
         rq("adjust_hue_saturation", EmptyMap),
         rq("select_rectangle", [x |-> 0, y |-> 0, width |-> 4, height |-> 3]),
         rq("select_rectangle", [x |-> 0, y |-> 0]),
         rq("scale_image", [width |-> 4, height |-> 3]),
         rq("scale_image", EmptyMap),
         rq("get_image_info", EmptyMap),
         rq("run_procedure", [procedure_name |-> "plug-in-gauss", arguments |-> << >>]),
         rq("run_procedure", [procedure_name |-> "plug-in-gauss"]),
         rq("adjust_colors", [brightness |-> 10]),
         rq("no_such_tool", EmptyMap)}

\* The calls made of the extensions' dispatcher.
AdvancedRequests ==
    LET rq(name, arguments) == [name |-> name, arguments |-> arguments]
    IN  {rq("create_macro", [macro_name |-> "m1", operations |-> << OpA >>]),
         rq("create_macro", [macro_name |-> "m1"]),
         rq("create_macro", EmptyMap),
         rq("run_macro", [macro_name |-> "m1"]),
         rq("run_macro", EmptyMap),
         rq("save_preset", [preset_name |-> "p1", preset_type |-> "adjustment"]),
         rq("load_preset", EmptyMap),
         rq("batch_process_advanced", [input_directory |-> "in"]),
         rq("create_hdr", EmptyMap),
         rq("no_such_tool", EmptyMap)}

\* --------------------------------------------------------- batch scheduler
\* asyncio.Semaphore(4).
SemaphoreLimit == 4

\* args.get("file_pattern", "*.jpg,*.png,*.tiff"), split at the commas.
DefaultFilePattern == << "*.jpg", "*.png", "*.tiff" >>

JpgFiles == {"a.jpg", "c.jpg", "e.jpg", "g.jpg"}

\* Whether a file name matches a glob pattern.
Matches(pattern, name) ==
    IF pattern = "*" THEN TRUE
    ELSE IF pattern = "*.jpg" THEN name \in JpgFiles
    ELSE IF pattern = "*.png" THEN name \notin JpgFiles
    ELSE FALSE

FilePath(dir, name) == [dir |-> dir, name |-> name]

\* Path(input_dir).glob(pattern): the matching paths, in listing order.
RECURSIVE Glob(_, _, _)
Glob(dir, listing, pattern) ==
    IF listing = << >> THEN << >>
    ELSE (IF Matches(pattern, Head(listing))
          THEN << FilePath(dir, Head(listing)) >> ELSE << >>)
         \o Glob(dir, Tail(listing), pattern)

\* files.extend(...) for each pattern in turn.
RECURSIVE ResolveFiles(_, _, _)
ResolveFiles(dir, listing, patterns) ==
    IF patterns = << >> THEN << >>
    ELSE Glob(dir, listing, Head(patterns))
         \o ResolveFiles(dir, listing, Tail(patterns))

\* f"{output_dir}/{file_path.name}".
OutputPath(args, file_path) == FilePath(args.output_directory, file_path.name)

\* A process_single_file that applies the operations last to first.
FileCallsReversed(args, file_path) ==
    << [tool |-> "open_image", arguments |-> [filepath |-> file_path]] >>
        \o [i \in 1..Len(args.operations) |->
                CallFor(args.operations[Len(args.operations) + 1 - i])]
        \o << [tool |-> "save_image",
               arguments |-> [filepath |-> FilePath(args.output_directory,
                                                   file_path.name)]] >>

\* The dispatcher calls process_single_file makes for a file when none raises.
FileCalls(args, file_path) ==
    << [tool |-> "open_image", arguments |-> [filepath |-> file_path]] >>
        \o [i \in 1..Len(args.operations) |-> CallFor(args.operations[i])]
        \o << [tool |-> "save_image",
               arguments |-> [filepath |-> OutputPath(args, file_path)]] >>

\* str(e) of the exception a raising dispatch carries.
RaisedText == "host error"

\* A process_single_file not started yet.
NewTask == [status |-> "pending", calls |-> << >>, answered |-> 0,
            raised |-> FALSE, result |-> [pending |-> TRUE]]

\* process_single_file up to its first await: open_image is dispatched.
TaskStarted(args, file_path) ==
    [NewTask EXCEPT !.status = "running",
                    !.calls = << FileCalls(args, file_path)[1] >>]

\* An except clause that reports the file as processed.
FailureResultAsSuccess(file_path, text) ==
    [success |-> TRUE, input |-> file_path, error |-> text]

\* What process_single_file returns when a dispatch raised.
FailureResult(file_path, text) ==
    [success |-> FALSE, input |-> file_path, error |-> text]

\* process_single_file when its awaited dispatch returns or raises: the
\* except clause's result, the next dispatch, or the result after save_image.
TaskResumed(t, args, file_path, outcome) ==
    IF outcome = "raise"
    THEN [t EXCEPT !.status = "done", !.answered = @ + 1, !.raised = TRUE,
                   !.result = FailureResult(file_path, RaisedText)]
    ELSE IF Len(t.calls) < Len(FileCalls(args, file_path))
    THEN [t EXCEPT !.answered = @ + 1,
                   !.calls = Append(@, FileCalls(args, file_path)[Len(t.calls) + 1])]
    ELSE [t EXCEPT !.status = "done", !.answered = @ + 1,
                   !.result = [success |-> TRUE, input |-> file_path,
                               output |-> OutputPath(args, file_path)]]

\* sum(1 for r in results if isinstance(r, dict) and r.get("success")).
SuccessCount(rs) ==
    Cardinality({i \in 1..Len(rs) : Get(rs[i], "success", FALSE)})

\* A report whose total counts the succeeded files only.
BatchReplyOfSucceeded(rs, fs) ==
    [Reply("batch_processed", "")
        EXCEPT !.succeeded = SuccessCount(rs), !.total = SuccessCount(rs)]

\* "Processed {success_count}/{len(files)} files".
BatchReply(rs, fs) ==
    [Reply("batch_processed", "")
        EXCEPT !.succeeded = SuccessCount(rs), !.total = Len(fs)]

\* A setup that takes an empty list of files for a batch.
NoFilesNever(fs) == FALSE

\* "if not files".
NoFiles(fs) == fs = << >>

\* batch_process_advanced(args) up to its first await: the files are
\* resolved; in parallel mode the tasks are created, in sequential mode the
\* first file is started (a loop over no files goes on to the count).
batch_process_advanced(args, listing) ==
    /\ pc = "idle"
    /\ LET resolved == ResolveFiles(args.input_directory, listing,
                                    Get(args, "file_pattern", DefaultFilePattern))
       IN  IF NoFiles(resolved)
           THEN /\ pc' = "returned"
                /\ reply' = Reply("no_files_found", "")
                /\ UNCHANGED << batch, files, task, semaphore, batch_results,
                                calls >>
           ELSE /\ batch' = args
                /\ files' = resolved
                /\ batch_results' = << >>
                /\ IF Get(args, "parallel", FALSE)
                   THEN /\ pc' = "batch"
                        /\ reply' = reply
                        /\ semaphore' = SemaphoreLimit
                        /\ task' = [i \in 1..Len(resolved) |-> NewTask]
                        /\ calls' = calls
                   ELSE IF 1 \in 1..Len(resolved)
                   THEN /\ pc' = "batch"
                        /\ reply' = reply
                        /\ semaphore' = semaphore
                        /\ task' = [i \in 1..Len(resolved) |->
                                        IF i = 1 THEN TaskStarted(args, resolved[1])
                                        ELSE NewTask]
                        /\ calls' = Append(calls, FileCalls(args, resolved[1])[1])
                   ELSE /\ pc' = "returned"
                        /\ reply' = BatchReply(<< >>, resolved)
                        /\ semaphore' = semaphore
                        /\ task' = << >>
                        /\ calls' = calls
    /\ UNCHANGED << registryVars, macro, preset, op_index, results, outcomes >>

\* A semaphore that lets every task in.
CanAcquireAlways(value) == TRUE

\* Whether semaphore.acquire() goes through.
CanAcquire(value) == value > 0

\* Parallel mode, async with semaphore: the longest-waiting task is let in
\* and starts its file.
process_file_enters(i) ==
    /\ pc = "batch"
    /\ Get(batch, "parallel", FALSE)
    /\ task[i].status = "pending"
    /\ \A j \in 1..(i - 1) : task[j].status # "pending"
    /\ CanAcquire(semaphore)
    /\ semaphore' = semaphore - 1
    /\ task' = [task EXCEPT ![i] = TaskStarted(batch, files[i])]
    /\ UNCHANGED << registryVars, callVars, batch, files, batch_results >>

\* A gate that gets its permit back only from a file that succeeded.
ReleasedOnSuccess(value, t) ==
    IF t.status = "done" /\ ~t.raised THEN value + 1 ELSE value

\* The semaphore after a task's step: leaving the async with block, by
\* return or by exception, releases the permit.
Released(value, t) == IF t.status = "done" THEN value + 1 ELSE value

\* Parallel mode: the dispatch a task awaits returns or raises; a task that
\* ends leaves the async with block, which releases the semaphore.
process_file_resumes(i, outcome) ==
    /\ pc = "batch"
    /\ Get(batch, "parallel", FALSE)
    /\ task[i].status = "running"
    /\ LET t == TaskResumed(task[i], batch, files[i], outcome)
       IN  /\ task' = [task EXCEPT ![i] = t]
           /\ semaphore' = Released(semaphore, t)
    /\ UNCHANGED << registryVars, callVars, batch, files, batch_results >>

\* A gather that returns the results in the reverse of the tasks' order.
GatherResultsReversed(ts) ==
    [i \in 1..Len(ts) |-> ts[Len(ts) + 1 - i].result]

\* What asyncio.gather(*tasks) returns: the tasks' results, in the order of
\* the tasks.
GatherResults(ts) == [i \in 1..Len(ts) |-> ts[i].result]

\* Parallel mode: asyncio.gather returns; the count is made and the call
\* returns.
gather_returns ==
    /\ pc = "batch"
    /\ Get(batch, "parallel", FALSE)
    /\ \A i \in 1..Len(files) : task[i].status = "done"
    /\ batch_results' = GatherResults(task)
    /\ pc' = "returned"
    /\ reply' = BatchReply(batch_results', files)
    /\ UNCHANGED << registryVars, macro, preset, op_index, results, calls,
                    outcomes, batch, files, task, semaphore >>

\* A loop that passes over every other file.
NextFileSkipping(i) == i + 2

\* The file the sequential loop takes after file i.
NextFile(i) == i + 1

\* Sequential mode: the dispatch the current file awaits returns or raises;
\* when the file ends its result is appended and the loop starts the next
\* file, or the count is made and the call returns.
sequential_file_resumes(i, outcome) ==
    /\ pc = "batch"
    /\ ~Get(batch, "parallel", FALSE)
    /\ task[i].status = "running"
    /\ LET t == TaskResumed(task[i], batch, files[i], outcome)
           n == NextFile(i)
       IN  IF t.status # "done"
           THEN /\ task' = [task EXCEPT ![i] = t]
                /\ calls' = Append(calls, t.calls[Len(t.calls)])
                /\ UNCHANGED << pc, reply, batch_results >>
           ELSE /\ batch_results' = Append(batch_results, t.result)
                /\ IF n \in 1..Len(files)
                   THEN /\ task' = [task EXCEPT
                                        ![i] = t,
                                        ![n] = TaskStarted(batch, files[n])]
                        /\ calls' = Append(calls, FileCalls(batch, files[n])[1])
                        /\ UNCHANGED << pc, reply >>
                   ELSE /\ task' = [task EXCEPT ![i] = t]
                        /\ calls' = calls
                        /\ pc' = "returned"
                        /\ reply' = BatchReply(batch_results', files)
    /\ UNCHANGED << registryVars, macro, preset, op_index, results, outcomes,
                    batch, files, semaphore >>

\* ------------------------------------------------------------------ actions
\* GimpMCPExtensions' dispatcher, which has no except clause: a name without
\* a branch raises ValueError, a branch naming a method the class lacks
\* raises AttributeError, a handler's args[...] on a missing key raises
\* KeyError, and otherwise the handler runs.
call_advanced_tool(name, arguments, now, how, listing) ==
    /\ pc = "idle"
    /\ LET missing == MissingKeys(name, arguments)
       IN  IF ~InTable(AdvancedTools, name)
           THEN Raises("ValueError", name) /\ UNCHANGED batchVars
           ELSE IF name \in UndefinedHandlers
           THEN Raises("AttributeError", name) /\ UNCHANGED batchVars
           ELSE IF missing # << >>
           THEN Raises("KeyError", missing[1]) /\ UNCHANGED batchVars
           ELSE CASE name = "create_macro" ->
                        create_macro(arguments, now, how) /\ UNCHANGED batchVars
                  [] name = "run_macro" ->
                        run_macro(arguments.macro_name) /\ UNCHANGED batchVars
                  [] name = "save_preset" ->
                        save_preset(arguments, now, how) /\ UNCHANGED batchVars
                  [] name = "load_preset" ->
                        load_preset(arguments.preset_name) /\ UNCHANGED batchVars
                  [] name = "batch_process_advanced" ->
                        batch_process_advanced(arguments, listing) /\ UNCHANGED completed
                  [] OTHER -> FALSE

CallTool ==
    /\ \E rq \in ServerRequests : \E host \in HostOutcomes(rq.name) :
            /\ call_tool(rq.name, rq.arguments, host)
            /\ request' = Request("call_tool", rq.name, rq.arguments, FALSE)
    /\ UNCHANGED << history, batchVars >>

CallAdvancedTool ==
    /\ \E rq \in AdvancedRequests :
            /\ call_advanced_tool(rq.name, rq.arguments, 1, "written", << >>)
            /\ request' = Request("call_advanced_tool", rq.name, rq.arguments, FALSE)
    /\ UNCHANGED << history, serverVars >>

InitializeGimp ==
    /\ initialize_gimp
    /\ UNCHANGED << registryVars, callVars, batchVars, history, request >>

ResolvedBy(args, listing) ==
    ResolveFiles(args.input_directory, listing,
                 Get(args, "file_pattern", DefaultFilePattern))

BatchProcessAdvanced ==
    /\ \E c \in BatchCalls :
            /\ Len(ResolvedBy(c.args, c.listing)) <= MaxFiles
            /\ batch_process_advanced(c.args, c.listing)
    /\ UNCHANGED << history, request, serverVars, completed >>

ProcessFileEnters ==
    /\ \E i \in 1..Len(files) : process_file_enters(i)
    /\ UNCHANGED << history, request, serverVars, completed >>

ProcessFileResumes ==
    /\ \E i \in 1..Len(files), outcome \in Outcomes :
            process_file_resumes(i, outcome)
    /\ UNCHANGED << history, request, serverVars, completed >>

GatherReturns == gather_returns /\ UNCHANGED << history, request, serverVars, completed >>

SequentialFileResumes ==
    /\ \E i \in 1..Len(files), outcome \in Outcomes :
            sequential_file_resumes(i, outcome)
    /\ UNCHANGED << history, request, serverVars, completed >>

\* The same steps with the order in which the files end recorded in
\* completed.
ObservedBatchProcessAdvanced ==
    /\ \E c \in BatchCalls :
            /\ Len(ResolvedBy(c.args, c.listing)) <= MaxSmallBatch
            /\ batch_process_advanced(c.args, c.listing)
    /\ UNCHANGED << history, request, serverVars, completed >>

ObservedProcessFileResumes ==
    /\ \E i \in 1..Len(files), outcome \in Outcomes :
            /\ process_file_resumes(i, outcome)
            /\ completed' = IF task'[i].status = "done"
                            THEN Append(completed, i) ELSE completed
    /\ UNCHANGED << history, request, serverVars >>

ObservedSequentialFileResumes ==
    /\ \E i \in 1..Len(files), outcome \in Outcomes :
            /\ sequential_file_resumes(i, outcome)
            /\ completed' = IF task'[i].status = "done"
                            THEN Append(completed, i) ELSE completed
    /\ UNCHANGED << history, request, serverVars >>

SavePreset ==
    /\ \E args \in SavePresetArgs, now \in Times, how \in WriteOutcomes :
            save_preset(args, now, how)
    /\ UNCHANGED << history, request, serverVars, batchVars >>

LoadPreset ==
    /\ \E preset_name \in PresetNames : load_preset(preset_name)
    /\ UNCHANGED << history, request, serverVars, batchVars >>

PresetDispatchReturns ==
    /\ \E outcome \in Outcomes : load_preset_resumes(outcome)
    /\ UNCHANGED << history, request, serverVars, batchVars >>

LoadPresetsFromDisk ==
    load_presets_from_disk /\ UNCHANGED << history, request, serverVars, batchVars >>

CreateMacro ==
    /\ \E args \in CreateMacroArgs, now \in Times, how \in WriteOutcomes :
            create_macro(args, now, how)
    /\ UNCHANGED << history, request, serverVars, batchVars >>

RunMacro ==
    /\ \E macro_name \in MacroNames : run_macro(macro_name)
    /\ UNCHANGED << history, request, serverVars, batchVars >>

DispatchReturns ==
    /\ \E outcome \in Outcomes : run_macro_resumes(outcome)
    /\ UNCHANGED << history, request, serverVars, batchVars >>

Respond ==
    /\ call_returns
    /\ request' = NoRequest
    /\ host_calls' = << >>
    /\ UNCHANGED << history, current_image, current_drawable, pdb >>

Restart == new_process /\ UNCHANGED << history, request, serverVars, batchVars >>

LoadMacrosFromDisk ==
    load_macros_from_disk /\ UNCHANGED << history, request, serverVars, batchVars >>

\* The same calls, observed: history keeps the arguments of the last
\* create_macro that ended normally and whether a new process, and then a
\* load into its empty registry, followed it.
ObservedCreateMacro ==
    /\ \E args \in CreateMacroArgs, now \in Times, how \in WriteOutcomes :
        /\ create_macro(args, now, how)
        /\ history' =
             IF reply'.kind = "macro_created"
             THEN [trail |-> "created", args |-> args]
             ELSE IF reply'.kind = "raised" THEN NoHistory
             ELSE history
    /\ UNCHANGED << batchVars, request, serverVars >>

ObservedRestart ==
    /\ new_process
    /\ history' = IF history.trail = "none" THEN history
                  ELSE [history EXCEPT !.trail = "restarted"]
    /\ UNCHANGED << batchVars, request, serverVars >>

ObservedLoadMacrosFromDisk ==
    /\ load_macros_from_disk
    /\ history' = IF history.trail = "restarted"
                  THEN [history EXCEPT !.trail = "loaded"]
                  ELSE history
    /\ UNCHANGED << batchVars, request, serverVars >>

\* ---------------------------------------------------------- specifications
Init ==
    /\ macro_registry = EmptyMap
    /\ preset_registry = EmptyMap
    /\ macro_files = EmptyMap
    /\ preset_files = EmptyMap
    /\ pc = "idle"
    /\ macro = NoMacro
    /\ preset = NoPreset
    /\ op_index = 0
    /\ results = << >>
    /\ calls = << >>
    /\ outcomes = << >>
    /\ reply = NoReply
    /\ batch = NoBatch
    /\ files = << >>
    /\ task = << >>
    /\ semaphore = 0
    /\ batch_results = << >>
    /\ completed = << >>
    /\ history = NoHistory
    /\ request = NoRequest
    /\ current_image = "none"
    /\ current_drawable = NoDrawable
    /\ pdb = FALSE
    /\ host_calls = << >>

NextMacro ==
    \/ CreateMacro
    \/ RunMacro
    \/ DispatchReturns
    \/ Respond
    \/ Restart
    \/ LoadMacrosFromDisk

\* The macro registry under tool calls, process restarts and loads.
SpecMacro == Init /\ [][NextMacro]_vars

NextRoundTrip ==
    \/ ObservedCreateMacro
    \/ ObservedRestart
    \/ ObservedLoadMacrosFromDisk
    \/ Respond

\* create_macro, restart and load, with the observer.
SpecRoundTrip == Init /\ [][NextRoundTrip]_vars

NextPreset ==
    \/ SavePreset
    \/ LoadPreset
    \/ PresetDispatchReturns
    \/ Respond
    \/ Restart
    \/ LoadPresetsFromDisk

\* The preset registry under tool calls, process restarts and loads.
SpecPreset == Init /\ [][NextPreset]_vars

\* create_macro calls that end with the macro written, and batches over at
\* most two files, for the specification of both kinds of sequence.
OrderedCreateMacro ==
    /\ \E ops \in OperationLists :
            create_macro([macro_name |-> "m1", operations |-> ops], 1, "written")
    /\ UNCHANGED << history, request, serverVars, batchVars >>

OrderedBatchProcessAdvanced ==
    /\ \E c \in BatchCalls :
            /\ Len(c.args.operations) = 2
            /\ Len(ResolvedBy(c.args, c.listing)) <= 2
            /\ batch_process_advanced(c.args, c.listing)
    /\ UNCHANGED << history, request, serverVars, completed >>

\* The registry calls with the request recorded.
RequestedCreateMacro ==
    /\ \E args \in RequestedCreateMacroArgs, now \in Times, how \in WriteOutcomes :
            /\ create_macro(args, now, how)
            /\ request' = Request("call_advanced_tool", "create_macro", args,
                                  args.macro_name \in DOMAIN macro_registry)
    /\ UNCHANGED << history, serverVars, batchVars >>

RequestedRunMacro ==
    /\ \E macro_name \in MacroNames :
            /\ run_macro(macro_name)
            /\ request' = Request("call_advanced_tool", "run_macro", [macro_name |-> macro_name],
                                  macro_name \in DOMAIN macro_registry)
    /\ UNCHANGED << history, serverVars, batchVars >>

RequestedSavePreset ==
    /\ \E args \in RequestedSavePresetArgs, now \in Times, how \in WriteOutcomes :
            /\ save_preset(args, now, how)
            /\ request' = Request("call_advanced_tool", "save_preset", args,
                                  args.preset_name \in DOMAIN preset_registry)
    /\ UNCHANGED << history, serverVars, batchVars >>

RequestedLoadPreset ==
    /\ \E preset_name \in PresetNames :
            /\ load_preset(preset_name)
            /\ request' = Request("call_advanced_tool", "load_preset", [preset_name |-> preset_name],
                                  preset_name \in DOMAIN preset_registry)
    /\ UNCHANGED << history, serverVars, batchVars >>

OverwritingCreateMacro ==
    /\ \E args \in OverwritingCreateMacroArgs, now \in Times, how \in WriteOutcomes :
            /\ create_macro(args, now, how)
            /\ request' = Request("call_advanced_tool", "create_macro", args,
                                  args.macro_name \in DOMAIN macro_registry)
    /\ UNCHANGED << history, serverVars, batchVars >>

OverwritingSavePreset ==
    /\ \E args \in OverwritingSavePresetArgs, now \in Times :
            /\ save_preset(args, now, "written")
            /\ request' = Request("call_advanced_tool", "save_preset", args,
                                  args.preset_name \in DOMAIN preset_registry)
    /\ UNCHANGED << history, serverVars, batchVars >>

\* The dispatch a file's task awaits, and what the server makes of it.
Awaited(i) == task[i].calls[Len(task[i].calls)]

ServedFile(i, host) ==
    Served(Awaited(i).tool, Awaited(i).arguments, host, current_image,
           current_drawable, pdb, files[i].name)

\* The server runs the awaited dispatch of file i: its references change,
\* and the dispatch is logged with the file it was made for, the kind of
\* text returned and the image the host acted on.
ServerServes(i, host) ==
    /\ current_image' = ServedFile(i, host).image
    /\ current_drawable' = ServedFile(i, host).drawable
    /\ host_calls' = Append(host_calls,
                            [file |-> files[i].name, tool |-> Awaited(i).tool,
                             kind |-> ServedFile(i, host).kind,
                             on |-> ServedFile(i, host).on])
    /\ UNCHANGED pdb

\* What process_single_file sees of a dispatch to the server: a returned
\* text, whatever it says.
Seen(kind) == IF kind = "done" THEN "success" ELSE "host_failure"

\* A batch call made of a server whose initialize_gimp has run.
HostedBatchProcessAdvanced ==
    /\ pdb
    /\ \E c \in HostedBatchCalls :
            /\ batch_process_advanced(c.args, c.listing)
            /\ request' = Request("call_advanced_tool", "batch_process_advanced",
                                  c.args, FALSE)
    /\ UNCHANGED << history, serverVars, completed >>

HostedProcessFileResumes ==
    /\ \E i \in 1..Len(files) :
            /\ task[i].status = "running"
            /\ \E host \in HostOutcomes(Awaited(i).tool) :
                    /\ process_file_resumes(i, Seen(ServedFile(i, host).kind))
                    /\ ServerServes(i, host)
    /\ UNCHANGED << history, request, completed >>

HostedSequentialFileResumes ==
    /\ \E i \in 1..Len(files) :
            /\ task[i].status = "running"
            /\ \E host \in HostOutcomes(Awaited(i).tool) :
                    /\ sequential_file_resumes(i, Seen(ServedFile(i, host).kind))
                    /\ ServerServes(i, host)
    /\ UNCHANGED << history, request, completed >>

NextHosted ==
    \/ InitializeGimp
    \/ HostedBatchProcessAdvanced
    \/ ProcessFileEnters
    \/ HostedProcessFileResumes
    \/ GatherReturns
    \/ HostedSequentialFileResumes
    \/ Respond

\* The batch scheduler dispatching to GimpMCPServer's handlers.
SpecHosted == Init /\ [][NextHosted]_vars

\* How a dispatch of process_single_file can end: a save_image into a
\* directory that does not exist does not succeed.
FileOutcomes(t) ==
    IF /\ t.calls # << >>
       /\ t.calls[Len(t.calls)].tool = "save_image"
       /\ t.calls[Len(t.calls)].arguments.filepath.dir \notin ExistingDirectories
    THEN Outcomes \ {"success"}
    ELSE Outcomes

SetupBatchProcessAdvanced ==
    /\ \E c \in SetupBatchCalls :
            /\ batch_process_advanced(c.args, c.listing)
            /\ request' = Request("call_advanced_tool", "batch_process_advanced",
                                  c.args, FALSE)
    /\ UNCHANGED << history, serverVars, completed >>

SetupProcessFileResumes ==
    /\ \E i \in 1..Len(files) : \E outcome \in FileOutcomes(task[i]) :
            process_file_resumes(i, outcome)
    /\ UNCHANGED << history, request, serverVars, completed >>

SetupSequentialFileResumes ==
    /\ \E i \in 1..Len(files) : \E outcome \in FileOutcomes(task[i]) :
            sequential_file_resumes(i, outcome)
    /\ UNCHANGED << history, request, serverVars, completed >>

NextSetup ==
    \/ SetupBatchProcessAdvanced
    \/ ProcessFileEnters
    \/ SetupProcessFileResumes
    \/ GatherReturns
    \/ SetupSequentialFileResumes
    \/ Respond

\* Batches into an output directory that exists or does not.
SpecSetup == Init /\ [][NextSetup]_vars

StoringCreateMacro ==
    /\ \E args \in StoringCreateMacroArgs, how \in WriteOutcomes :
            create_macro(args, 1, how)
    /\ UNCHANGED << history, request, serverVars, batchVars >>

StoringSavePreset ==
    /\ \E args \in StoringSavePresetArgs, how \in WriteOutcomes :
            save_preset(args, 1, how)
    /\ UNCHANGED << history, request, serverVars, batchVars >>

NextLoad ==
    \/ StoringCreateMacro
    \/ StoringSavePreset
    \/ Restart
    \/ LoadMacrosFromDisk
    \/ LoadPresetsFromDisk
    \/ Respond

\* Both storage directories filled with whole and cut-off files, process
\* restarts, and the two loads.
SpecLoad == Init /\ [][NextLoad]_vars

NextOverwrite ==
    \/ OverwritingCreateMacro
    \/ OverwritingSavePreset
    \/ Respond

SpecOverwrite == Init /\ [][NextOverwrite]_vars

NextDispatch ==
    \/ InitializeGimp
    \/ CallTool
    \/ CallAdvancedTool
    \/ DispatchReturns
    \/ Respond

SpecDispatch == Init /\ [][NextDispatch]_vars

\* The calls that set the server's current image and drawable, with and
\* without the keys their handlers read.
HandleRequests ==
    {rq \in ServerRequests : rq.name \in {"create_image", "open_image", "create_layer"}}

\* call_tool, observed: request also keeps the references the server held
\* when the call was made.
ObservedCallTool ==
    /\ \E rq \in HandleRequests : \E host \in HostOutcomes(rq.name) :
            /\ call_tool(rq.name, rq.arguments, host)
            /\ request' = [via |-> "call_tool", tool |-> rq.name,
                           arguments |-> rq.arguments, known |-> FALSE,
                           image |-> current_image,
                           drawable |-> current_drawable]
    /\ UNCHANGED << history, batchVars >>

\* A server that is only asked to create images, open images and create
\* layers.
NextHandles ==
    \/ InitializeGimp
    \/ ObservedCallTool
    \/ Respond

SpecHandles == Init /\ [][NextHandles]_vars

NextRequests ==
    \/ RequestedCreateMacro
    \/ RequestedRunMacro
    \/ DispatchReturns
    \/ RequestedSavePreset
    \/ RequestedLoadPreset
    \/ PresetDispatchReturns
    \/ Respond

\* Both registries under tool calls, each call kept beside its result.
SpecRequests == Init /\ [][NextRequests]_vars

NextBatch ==
    \/ BatchProcessAdvanced
    \/ ProcessFileEnters
    \/ ProcessFileResumes
    \/ GatherReturns
    \/ SequentialFileResumes
    \/ Respond

\* The batch scheduler: one batch_process_advanced call after another.
SpecBatch == Init /\ [][NextBatch]_vars

\* The batch scheduler when every awaited host call returns and the event
\* loop runs every task that can run.
SpecBatchFair ==
    /\ SpecBatch
    /\ WF_vars(ProcessFileEnters)
    /\ WF_vars(ProcessFileResumes)
    /\ WF_vars(GatherReturns)
    /\ WF_vars(SequentialFileResumes)

NextCompletion ==
    \/ ObservedBatchProcessAdvanced
    \/ ProcessFileEnters
    \/ ObservedProcessFileResumes
    \/ GatherReturns
    \/ ObservedSequentialFileResumes
    \/ Respond

NextOrder ==
    \/ OrderedCreateMacro
    \/ RunMacro
    \/ DispatchReturns
    \/ OrderedBatchProcessAdvanced
    \/ ProcessFileEnters
    \/ ProcessFileResumes
    \/ GatherReturns
    \/ SequentialFileResumes
    \/ Respond

\* Macro runs and batches side by side: the two kinds of operation sequence.
SpecOrder == Init /\ [][NextOrder]_vars

\* The batch scheduler with the completion order of the files recorded.
SpecCompletion == Init /\ [][NextCompletion]_vars

\* ------------------------------------------------------------------ claims
\* A macro run is under way or has just returned its report.
InMacroRun == pc = "run_macro" \/ reply.kind = "macro_executed"

\* C1: fail-fast in run_macro. If the dispatch of operation k raised, the
\* run has returned, its report holds exactly k attempted operations, the
\* first k-1 marked succeeded and the k-th marked failed, each under its own
\* tool name, and the dispatcher was called k times: never for k+1..n.
C1_FailFast ==
    InMacroRun =>
        \A k \in 1..Len(outcomes) :
            outcomes[k] = "raise" =>
                /\ pc = "returned"
                /\ reply.kind = "macro_executed"
                /\ Len(reply.results) = k
                /\ Len(calls) = k
                /\ \A i \in 1..k :
                    /\ reply.results[i].tool = macro.operations[i].tool
                    /\ reply.results[i].mark =
                           IF i < k THEN "succeeded" ELSE "failed"

\* A two-operation macro whose first dispatch raised.
C1_Witness ==
    /\ pc = "returned"
    /\ reply.kind = "macro_executed"
    /\ Len(macro.operations) = 2
    /\ outcomes = << "raise" >>

\* The calls of one file's sequence, as far as they go, are open_image on
\* the file, the batch's operations in list order, and save_image.
InListOrder(cs, file_path) ==
    /\ Len(cs) <= Len(batch.operations) + 2
    /\ \A k \in 1..Len(cs) :
        IF k = 1
        THEN cs[k] = [tool |-> "open_image", arguments |-> [filepath |-> file_path]]
        ELSE IF k <= Len(batch.operations) + 1
        THEN cs[k] = CallFor(batch.operations[k - 1])
        ELSE cs[k].tool = "save_image"

\* C2: strict ordering inside one sequence. In a macro run the calls made so
\* far are the first calls of the macro's operation list, in list order, and
\* every call but the one awaited has been answered; in a batch the same
\* holds of each file's calls against the batch's operation list.
C2_StrictOrdering ==
    /\ InMacroRun =>
        /\ Len(calls) <= Len(macro.operations)
        /\ \A k \in 1..Len(calls) : calls[k] = CallFor(macro.operations[k])
        /\ Len(calls) = Len(outcomes) + (IF pc = "run_macro" THEN 1 ELSE 0)
    /\ \A i \in 1..Len(task) :
        /\ InListOrder(task[i].calls, files[i])
        /\ Len(task[i].calls) =
               task[i].answered + (IF task[i].status = "running" THEN 1 ELSE 0)

\* The second operation of a two-operation macro is awaited, the first
\* having returned.
C2_Witness ==
    /\ pc = "run_macro"
    /\ macro.operations = << OpB, OpA >>
    /\ calls = << CallFor(OpB), CallFor(OpA) >>
    /\ outcomes = << "success" >>

\* batch_process_advanced has returned its count.
BatchEnded == pc = "returned" /\ reply.kind = "batch_processed"

\* The files for which a dispatch raised.
FailedFiles == {i \in 1..Len(task) : task[i].raised}

C4_NeverAborts ==
    /\ (pc = "returned" /\ files # << >>) => reply.kind = "batch_processed"
    /\ BatchEnded =>
        /\ reply.total = Len(files)
        /\ Len(batch_results) = Len(files)
        /\ \A i \in 1..Len(files) :
            /\ task[i].status = "done"
            /\ task[i].calls # << >>
            /\ batch_results[i] = task[i].result
            /\ batch_results[i].input = files[i]

\* A sequential batch over three files has ended: open_image raised for the
\* first, save_image for the second, and the third was saved.
C4_Witness ==
    /\ BatchEnded
    /\ ~Get(batch, "parallel", FALSE)
    /\ Len(files) = 3
    /\ FailedFiles = {1, 2}
    /\ Len(task[1].calls) = 1
    /\ task[2].calls = FileCalls(batch, files[2])
    /\ batch_results[3].success

\* The files admitted and not yet finished.
InFlight == {i \in 1..Len(task) : task[i].status = "running"}

RECURSIVE CallsInFileOrder(_)
CallsInFileOrder(ts) ==
    IF ts = << >> THEN << >> ELSE Head(ts).calls \o CallsInFileOrder(Tail(ts))

\* C6: sequential determinism. In sequential mode at most one file is in
\* flight, the files before it are finished and the files after it not
\* started; the results so far are those of the first files of the resolved
\* list, in that order; and the dispatcher calls so far are the files' calls
\* in the order of the files, each file's calls set by the resolved list, the
\* operations and where a dispatch raised.
C6_SequentialDeterminism ==
    (pc \in {"batch", "returned"} /\ files # << >>
        /\ ~Get(batch, "parallel", FALSE)) =>
        /\ \A i \in 1..Len(files) :
            /\ task[i].status # "pending" =>
                   \A j \in 1..(i - 1) : task[j].status = "done"
            /\ task[i].calls = SubSeq(FileCalls(batch, files[i]), 1,
                                      Len(task[i].calls))
        /\ Cardinality(InFlight) <= 1
        /\ Len(batch_results) = Cardinality({i \in 1..Len(files) :
                                                task[i].status = "done"})
        /\ \A i \in 1..Len(batch_results) :
            /\ batch_results[i].input = files[i]
            /\ batch_results[i] = task[i].result
        /\ calls = CallsInFileOrder(task)

\* The third file of a sequential batch is in flight after the first file
\* failed and the second was saved.
C6_Witness ==
    /\ pc = "batch"
    /\ ~Get(batch, "parallel", FALSE)
    /\ Len(files) >= 3
    /\ task[3].status = "running"
    /\ task[1].raised
    /\ Get(task[2].result, "success", FALSE)
    /\ Len(batch_results) = 2

\* C7 as stated: in parallel mode the order of the per-file results matches
\* the order in which the files completed.
C7_CompletionOrder ==
    (BatchEnded /\ Get(batch, "parallel", FALSE)) =>
        \A k \in 1..Len(batch_results) :
            batch_results[k].input = files[completed[k]]

\* C7, amended: in parallel mode the per-file results are in the order in
\* which the files were resolved, whatever the order in which they completed.
C7_ResolvedOrder ==
    (BatchEnded /\ Get(batch, "parallel", FALSE)) =>
        /\ Len(batch_results) = Len(files)
        /\ \A k \in 1..Len(batch_results) :
            /\ batch_results[k].input = files[k]
            /\ batch_results[k] = task[k].result

\* A parallel batch over three files has ended, the files having completed
\* last to first.
C7_Witness ==
    /\ BatchEnded
    /\ Get(batch, "parallel", FALSE)
    /\ completed = << 3, 2, 1 >>
    /\ batch_results[1].input.name = "a.jpg"
    /\ batch_results[3].input.name = "b.png"

\* C8: macro round trip. After a create_macro that ended normally, a new
\* process and load_macros_from_disk into its empty registry, the registry
\* holds an entry under the created name with the same name, description
\* and operations (in the same order).
C8_RoundTrip ==
    history.trail = "loaded" =>
        /\ history.args.macro_name \in DOMAIN macro_registry
        /\ LET entry == macro_registry[history.args.macro_name]
           IN  /\ {"name", "description", "operations"} \subseteq DOMAIN entry
               /\ entry["name"] = history.args.macro_name
               /\ entry["description"] = Get(history.args, "description", "")
               /\ entry["operations"] = history.args.operations

\* A macro of two different operations, created with a description, loaded
\* back by a new process.
C8_Witness ==
    /\ history.trail = "loaded"
    /\ history.args.operations = << OpB, OpA >>
    /\ "m1" \in DOMAIN macro_registry
    /\ macro_registry["m1"]["description"] = "enhance"
    /\ pc = "returned"

\* load_preset has ended (returned or raised) on a stored preset.
PresetCallEnded == pc = "returned" /\ preset # NoPreset

\* C9 as stated: load_preset on a preset of type adjustment dispatches
\* exactly one operation, adjust_colors, whose arguments equal the preset's
\* stored settings.
C9_ArgumentsEqualSettings ==
    (PresetCallEnded /\ preset.type = "adjustment") =>
        /\ Len(calls) = 1
        /\ calls[1].tool = "adjust_colors"
        /\ calls[1].arguments = preset.settings

\* C9, amended: load_preset on a preset of type adjustment whose settings
\* hold "adjustment" and "parameters" dispatches exactly one operation,
\* adjust_colors, whose arguments are exactly those two entries of the
\* settings (so equal to the settings when they hold nothing else); on
\* settings that lack one of the two it raises and dispatches nothing.
C9_AdjustmentRouting ==
    (PresetCallEnded /\ preset.type = "adjustment") =>
        IF {"adjustment", "parameters"} \subseteq DOMAIN preset.settings
        THEN /\ Len(calls) = 1
             /\ calls[1].tool = "adjust_colors"
             /\ DOMAIN calls[1].arguments = {"adjustment", "parameters"}
             /\ \A k \in {"adjustment", "parameters"} :
                    calls[1].arguments[k] = preset.settings[k]
             /\ (DOMAIN preset.settings = {"adjustment", "parameters"}
                    => calls[1].arguments = preset.settings)
        ELSE calls = << >> /\ reply.kind = "raised"

\* An adjustment preset with a third settings key has been applied.
C9_Witness ==
    /\ PresetCallEnded
    /\ preset.type = "adjustment"
    /\ preset.settings = AdjustmentSettingsMore
    /\ reply.kind = "preset_applied"
    /\ Len(calls) = 1

\* C10 as stated: load_preset on a stored preset of an unrecognized type
\* answers UnsupportedPresetType, calls the dispatcher not at all and does
\* not report the preset as applied.
C10_UnsupportedPresetType ==
    (PresetCallEnded /\ preset.type \notin {"filter", "adjustment", "brush"}) =>
        /\ reply.kind = "unsupported_preset_type"
        /\ calls = << >>

\* load_preset on a stored preset of type "gradient" has returned "Applied
\* preset" without a dispatcher call.
C10_Witness ==
    /\ PresetCallEnded
    /\ preset.type = "gradient"
    /\ reply.kind = "preset_applied"
    /\ calls = << >>

\* C11: unknown lookups. run_macro on a name absent from macro_registry
\* returns "Macro not found", load_preset on a name absent from
\* preset_registry returns "Preset not found"; neither makes a dispatcher
\* call, and the step that answers so leaves both registries and the
\* persisted files as they were.
C11_UnknownLookups ==
    /\ [](  (pc = "returned" /\ request.tool \in {"run_macro", "load_preset"}
                /\ ~request.known)
            => /\ reply.kind = (IF request.tool = "run_macro"
                                THEN "macro_not_found" ELSE "preset_not_found")
               /\ calls = << >>
               /\ outcomes = << >>)
    /\ [][(reply'.kind \in {"macro_not_found", "preset_not_found"})
            => UNCHANGED registryVars]_vars

\* load_preset has answered "Preset not found" while both registries hold
\* entries under other names.
C11_Witness ==
    /\ pc = "returned"
    /\ reply.kind = "preset_not_found"
    /\ request.arguments = [preset_name |-> "p2"]
    /\ "p1" \in DOMAIN preset_registry
    /\ macro_registry # EmptyMap

\* C12: no matching files. A batch_process_advanced call that answers "No
\* files found" has dispatched nothing (no open_image, operation or
\* save_image), started no file and produced no per-file result; and a
\* batch that is under way, or has returned a count, has a non-empty list of
\* resolved files.
C12_NoMatchingFiles ==
    /\ (pc = "returned" /\ reply.kind = "no_files_found") =>
        /\ calls = << >>
        /\ files = << >>
        /\ task = << >>
        /\ batch_results = << >>
    /\ (pc = "batch" \/ reply.kind = "batch_processed") => files # << >>

\* A batch_process_advanced call has answered "No files found".
C12_Witness ==
    /\ pc = "returned"
    /\ reply.kind = "no_files_found"

\* C13 as stated: a host rejection triggers fail-fast. When the handler of
\* operation k of a macro run reports that the host rejected the step, the
\* run marks step k failed and dispatches no later operation.
C13_HostRejectionFailFast ==
    InMacroRun =>
        \A k \in 1..Len(outcomes) :
            outcomes[k] = "host_failure" =>
                /\ Len(calls) = k
                /\ Len(results) >= k => results[k].mark = "failed"
                /\ pc = "returned" => reply.results[k].mark = "failed"

\* A two-operation macro has run to its end although the host rejected its
\* first operation: both operations were dispatched and both are marked
\* succeeded.
C13_Witness ==
    /\ pc = "returned"
    /\ reply.kind = "macro_executed"
    /\ outcomes = << "host_failure", "success" >>
    /\ Len(calls) = 2
    /\ reply.results[1].mark = "succeeded"
    /\ reply.results[2].mark = "succeeded"

\* C14: nothing is raised past the dispatcher boundary: whatever the tool
\* name and the argument map, a call of call_tool or call_advanced_tool ends
\* with a result returned to the caller, never with an exception.
C14_NothingRaisedPastDispatcher ==
    (pc = "returned" /\ request.via \in {"call_tool", "call_advanced_tool"})
        => reply.kind # "raised"

\* C14: a call of the extensions' dispatcher with a name it has no branch for
\* has ended with the ValueError of its else branch.
C14_Witness ==
    /\ pc = "returned"
    /\ request.via = "call_advanced_tool"
    /\ request.tool = "no_such_tool"
    /\ reply.kind = "raised"
    /\ reply.results = << "ValueError" >>

\* A call that names a tool its dispatcher has no branch for.
UnknownName ==
    \/ request.via = "call_tool" /\ request.tool \notin ServerTools
    \/ request.via = "call_advanced_tool" /\ request.tool \notin AdvancedTools

\* C15: a call whose tool name is not in the dispatcher's table ends with the
\* unknown-operation error result, and no handler has run and no host
\* procedure has been invoked for it.
C15_UnknownOperation ==
    (pc = "returned" /\ UnknownName)
        => /\ reply.kind = "unknown_tool"
           /\ reply.name = request.tool
           /\ host_calls = << >>
           /\ calls = << >>

\* C15: with a macro registered and an image open, the extensions'
\* dispatcher has been called with a name it has no branch for, and the call
\* has ended with an exception instead of an error result.
C15_Witness ==
    /\ pc = "returned"
    /\ request.via = "call_advanced_tool"
    /\ UnknownName
    /\ reply.kind = "raised"
    /\ "m1" \in DOMAIN macro_registry
    /\ current_image # "none"
    /\ host_calls = << >>

\* A call that reaches the handler of a tool its dispatcher knows, with an
\* argument map that lacks a key the handler reads with args[...].
LacksRequiredKey ==
    /\ request.via \in {"call_tool", "call_advanced_tool"}
    /\ request.via = "call_tool" => pdb
    /\ ~UnknownName
    /\ MissingKeys(request.tool, request.arguments) # << >>

\* C16: in every state of the server, a call whose argument map lacks a
\* required key ends with an invalid-arguments error result that names a
\* missing key, and no host procedure has been invoked for it.
C16_InvalidArguments ==
    (pc = "returned" /\ LacksRequiredKey)
        => /\ reply.kind = "error"
           /\ \E i \in 1..Len(MissingKeys(request.tool, request.arguments)) :
                    reply.name = MissingKeys(request.tool, request.arguments)[i]
           /\ host_calls = << >>
           /\ calls = << >>

\* C16: with GIMP initialised and no image open, create_layer has been
\* called without its name and has answered that no image is open.
C16_Witness ==
    /\ pc = "returned"
    /\ request.via = "call_tool"
    /\ request.tool = "create_layer"
    /\ request.arguments = EmptyMap
    /\ pdb
    /\ current_image = "none"
    /\ reply.kind = "no_image"

\* An operation with neither a tool name nor an argument map.
LacksBoth(operation) ==
    "tool" \notin DOMAIN operation /\ "arguments" \notin DOMAIN operation

\* C17: create_macro with a list in which some operation lacks both a tool
\* name and an argument map ends with the invalid-operation-format error, and
\* the step that answers so leaves macro_registry and the macro files (and
\* the presets) as they were.
C17_InvalidMacroDefinition ==
    /\ []((/\ pc = "returned"
           /\ request.tool = "create_macro"
           /\ \E i \in 1..Len(request.arguments.operations) :
                    LacksBoth(request.arguments.operations[i]))
            => reply.kind = "invalid_operation_format")
    /\ [][reply'.kind = "invalid_operation_format" => UNCHANGED registryVars]_vars

\* C17: with macro m1 registered and saved, a create_macro of m1 whose second
\* operation is empty has been refused, and m1 is still the earlier macro in
\* the registry and in its file.
C17_Witness ==
    /\ pc = "returned"
    /\ reply.kind = "invalid_operation_format"
    /\ request.arguments.operations = << OpA, OpEmpty >>
    /\ "m1" \in DOMAIN macro_registry
    /\ macro_registry["m1"].description = "soften"
    /\ "m1" \in DOMAIN macro_files
    /\ JsonLoad(macro_files["m1"]).ok
    /\ JsonLoad(macro_files["m1"]).val["description"] = "soften"

\* The entries of a mapping under the keys other than key are those of the
\* mapping before, and it has an entry under key.
OthersKept(before, after, key) ==
    /\ DOMAIN after = DOMAIN before \cup {key}
    /\ \A other \in DOMAIN before \ {key} : after[other] = before[other]

\* C18: last write wins. On a create_macro (or save_preset) that returns
\* normally, whether or not the name was there, the registry entry under the
\* name afterwards has exactly the fields of the new entry with the values
\* the call supplied (an absent description becomes empty, nothing of an
\* earlier entry is kept), the file under the name parses to that entry, and
\* the entries and files under other names, and the other registry, are as
\* before.
C18_LastWriteWins ==
    [][/\ (pc = "idle" /\ reply'.kind = "macro_created") =>
            LET args == request'.arguments
                entry == macro_registry'[args.macro_name]
            IN  /\ OthersKept(macro_registry, macro_registry', args.macro_name)
                /\ OthersKept(macro_files, macro_files', args.macro_name)
                /\ DOMAIN entry = {"name", "description", "operations", "created_at"}
                /\ entry["name"] = args.macro_name
                /\ entry["description"] = Get(args, "description", "")
                /\ entry["operations"] = args.operations
                /\ entry["created_at"] \in Times
                /\ JsonLoad(macro_files'[args.macro_name]).ok
                /\ JsonLoad(macro_files'[args.macro_name]).val = entry
                /\ UNCHANGED << preset_registry, preset_files >>
       /\ (pc = "idle" /\ reply'.kind = "preset_saved") =>
            LET args == request'.arguments
                entry == preset_registry'[args.preset_name]
            IN  /\ OthersKept(preset_registry, preset_registry', args.preset_name)
                /\ OthersKept(preset_files, preset_files', args.preset_name)
                /\ DOMAIN entry = {"name", "type", "settings", "created_at"}
                /\ entry["name"] = args.preset_name
                /\ entry["type"] = args.preset_type
                /\ entry["settings"] = args.settings
                /\ entry["created_at"] \in Times
                /\ JsonLoad(preset_files'[args.preset_name]).ok
                /\ JsonLoad(preset_files'[args.preset_name]).val = entry
                /\ UNCHANGED << macro_registry, macro_files >>
      ]_vars

\* C18: macro m1, registered while m2 was registered too, has been created
\* again without a description and with another operation; and preset p1 has
\* been saved over.
C18_Witness ==
    /\ pc = "returned"
    /\ reply.kind = "macro_created"
    /\ request.known
    /\ request.arguments = [macro_name |-> "m1", operations |-> << OpB >>]
    /\ macro_registry["m1"]["description"] = ""
    /\ "m2" \in DOMAIN macro_registry
    /\ "p2" \in DOMAIN preset_registry
    /\ "p1" \in DOMAIN preset_registry
    /\ preset_registry["p1"]["type"] = "filter"

\* Every file of a directory that parses has its entry in the registry.
Hydrated(registry, fs) ==
    \A f \in DOMAIN fs :
        JsonLoad(fs[f]).ok =>
            /\ f \in DOMAIN registry
            /\ registry[f] = JsonLoad(fs[f]).val

\* C19: a load skips the files that fail to parse and never aborts. When
\* load_macros_from_disk (load_presets_from_disk) has returned, every macro
\* (preset) file that parses has its entry in the registry, whatever files
\* beside it fail to parse and in whatever order the files were visited.
C19_LoadSkipsBadFiles ==
    /\ (pc = "returned" /\ reply.kind = "macros_loaded")
            => Hydrated(macro_registry, macro_files)
    /\ (pc = "returned" /\ reply.kind = "presets_loaded")
            => Hydrated(preset_registry, preset_files)

\* C19: a new process has loaded a macro directory of one cut-off file and
\* two whole ones, and holds the two.
C19_Witness ==
    /\ pc = "returned"
    /\ reply.kind = "macros_loaded"
    /\ DOMAIN macro_files = {"m1", "m2", "m3"}
    /\ ~JsonLoad(macro_files["m1"]).ok
    /\ DOMAIN macro_registry = {"m2", "m3"}
    /\ \E f \in DOMAIN preset_files : ~JsonLoad(preset_files[f]).ok

\* C20: registries are hydrated at startup. Whenever the process accepts a
\* tool call, every macro and preset with a file that parses is in its
\* registry; so a run_macro or load_preset that answers not-found names
\* nothing that has such a file.
C20_HydratedAtStartup ==
    /\ pc = "idle" =>
            /\ \A f \in DOMAIN macro_files :
                    JsonLoad(macro_files[f]).ok => f \in DOMAIN macro_registry
            /\ \A f \in DOMAIN preset_files :
                    JsonLoad(preset_files[f]).ok => f \in DOMAIN preset_registry
    /\ (pc = "returned" /\ reply.kind = "macro_not_found") =>
            ~(reply.name \in DOMAIN macro_files
                /\ JsonLoad(macro_files[reply.name]).ok)
    /\ (pc = "returned" /\ reply.kind = "preset_not_found") =>
            ~(reply.name \in DOMAIN preset_files
                /\ JsonLoad(preset_files[reply.name]).ok)

\* C20: run_macro has answered "Macro not found" for m1 in a process whose
\* macro directory holds a whole file of m1.
C20_Witness ==
    /\ pc = "returned"
    /\ reply.kind = "macro_not_found"
    /\ reply.name = "m1"
    /\ "m1" \in DOMAIN macro_files
    /\ JsonLoad(macro_files["m1"]).ok
    /\ "m1" \notin DOMAIN macro_registry

\* C21: an error in the setup of a batch aborts the whole call. A
\* batch_process_advanced call whose output directory does not exist starts
\* no file and dispatches nothing, and ends with one terminal error, never
\* with a count over per-file results.
C21_SetupErrorsAbort ==
    (/\ pc \in {"batch", "returned"}
     /\ request.tool = "batch_process_advanced"
     /\ request.arguments.output_directory \notin ExistingDirectories)
        => /\ pc = "returned"
           /\ reply.kind # "batch_processed"
           /\ task = << >>
           /\ calls = << >>
           /\ batch_results = << >>

\* C21: a sequential batch of three files into a directory that does not
\* exist has returned a count of 0 of 3, each file opened, processed and
\* failed at its save_image.
C21_Witness ==
    /\ pc = "returned"
    /\ request.tool = "batch_process_advanced"
    /\ request.arguments.output_directory = "missing"
    /\ ~request.arguments.parallel
    /\ reply.kind = "batch_processed"
    /\ reply.total = 3
    /\ reply.succeeded = 0
    /\ \A i \in 1..3 :
            /\ task[i].calls = FileCalls(batch, files[i])
            /\ batch_results[i].success = FALSE

\* Every entry of a registry is the content of the file under its name.
OnDisk(registry, fs) ==
    \A name \in DOMAIN registry :
        /\ name \in DOMAIN fs
        /\ JsonLoad(fs[name]).ok
        /\ JsonLoad(fs[name]).val = registry[name]

\* C22: written to disk on every create. In every state, and so after every
\* create_macro and save_preset call however its write ended, each entry of
\* macro_registry and preset_registry made by this process is the content of
\* the file under its name.
C22_WrittenOnEveryCreate ==
    /\ OnDisk(macro_registry, macro_files)
    /\ OnDisk(preset_registry, preset_files)

\* C22: a create_macro of m1 has ended with the exception of its disk write;
\* the registry holds m1 and no file of m1 exists.
C22_Witness ==
    /\ pc = "returned"
    /\ request.tool = "create_macro"
    /\ reply.kind = "raised"
    /\ "m1" \in DOMAIN macro_registry
    /\ "m1" \notin DOMAIN macro_files

\* The dispatches of a file that the server has answered, in order.
AnsweredFor(name) == SelectSeq(host_calls, LAMBDA e : e.file = name)

\* C23: the per-file protocol of process_single_file. The dispatches made
\* for a file are open_image of the file, the batch operations in list
\* order and one save_image to the output directory under the file's base
\* name, in that order; and once open_image or an operation of the file has
\* failed, nothing later is dispatched for the file and its result has
\* success false, an error text and no output.
C23_PerFileProtocol ==
    \A i \in 1..Len(task) :
        /\ task[i].calls =
                SubSeq(FileCalls(batch, files[i]), 1, Len(task[i].calls))
        /\ \A k \in 1..Len(AnsweredFor(files[i].name)) :
                (/\ AnsweredFor(files[i].name)[k].kind # "done"
                 /\ AnsweredFor(files[i].name)[k].tool # "save_image")
                    => /\ Len(task[i].calls) = k
                       /\ task[i].status = "done"
                       /\ task[i].result.success = FALSE
                       /\ "error" \in DOMAIN task[i].result
                       /\ "output" \notin DOMAIN task[i].result

\* C23: a sequential batch of one file has ended: the file was not found by
\* open_image, yet the operation and save_image were dispatched for it and
\* its result reports success with an output.
C23_Witness ==
    /\ pc = "returned"
    /\ reply.kind = "batch_processed"
    /\ Len(files) = 1
    /\ Len(host_calls) = 3
    /\ host_calls[1].tool = "open_image"
    /\ host_calls[1].kind = "file_not_found"
    /\ host_calls[3].tool = "save_image"
    /\ task[1].result.success
    /\ "output" \in DOMAIN task[1].result

OpenedBefore(name, k) ==
    \E j \in 1..(k - 1) :
        /\ host_calls[j].file = name
        /\ host_calls[j].tool = "open_image"
        /\ host_calls[j].kind = "done"

\* C25: no cross-file interference in parallel mode. Under every
\* interleaving of the per-file tasks, each operation and the save_image
\* dispatched for a file whose open_image succeeded acts on the image opened
\* from that file.
C25_NoCrossFileInterference ==
    (pc \in {"batch", "returned"} /\ Get(batch, "parallel", FALSE)) =>
        \A k \in 1..Len(host_calls) :
            (/\ host_calls[k].tool # "open_image"
             /\ host_calls[k].on # "none"
             /\ OpenedBefore(host_calls[k].file, k))
                => host_calls[k].on = host_calls[k].file

\* C25: in a parallel batch of two files without operations both files were
\* opened, and then the save_image of the first file saved the image of the
\* second.
C25_Witness ==
    /\ pc = "batch"
    /\ Get(batch, "parallel", FALSE)
    /\ batch.operations = << >>
    /\ Len(host_calls) = 3
    /\ host_calls[1] = [file |-> "a.jpg", tool |-> "open_image",
                        kind |-> "done", on |-> "none"]
    /\ host_calls[2] = [file |-> "b.png", tool |-> "open_image",
                        kind |-> "done", on |-> "none"]
    /\ host_calls[3] = [file |-> "a.jpg", tool |-> "save_image",
                        kind |-> "done", on |-> "b.png"]

\* C26: a started batch runs to completion. Every file of a batch under way,
\* whether the files are fewer or more than the gate admits and whichever
\* dispatches raise, is eventually finished, and the call eventually
\* returns; when a parallel batch has returned every permit is back.
C26_RunsToCompletion ==
    /\ (pc = "batch")
            ~> (/\ pc = "returned"
                /\ reply.kind = "batch_processed"
                /\ \A i \in 1..Len(files) : task[i].status = "done")
    /\ []((BatchEnded /\ Get(batch, "parallel", FALSE))
            => semaphore = SemaphoreLimit)

\* C26: a parallel batch of five files has returned with four of them
\* failed.
C26_Witness ==
    /\ BatchEnded
    /\ Get(batch, "parallel", FALSE)
    /\ Len(files) = 5
    /\ Cardinality(FailedFiles) = 4
    /\ semaphore = SemaphoreLimit

\* The tool names the orchestration has dispatched on its own in this state:
\* the call of a load_preset, and the open_image and save_image that
\* process_single_file puts around a file's operations.
OwnDispatchedNames ==
    (IF preset # NoPreset THEN {calls[k].tool : k \in 1..Len(calls)} ELSE {})
        \cup UNION {{c.tool : c \in {task[i].calls[k] :
                                        k \in 1..Len(task[i].calls)}}
                        \cap {"open_image", "save_image"} :
                    i \in 1..Len(task)}

\* C27 as stated: every tool name the orchestration dispatches on its own
\* (apply_filter, adjust_colors, set_brush_settings, open_image,
\* save_image) is a name call_tool has a branch for.
C27_OwnNamesKnown ==
    \A name \in OwnDispatchedNames : InTable(ServerTools, name)

\* load_preset has dispatched adjust_colors, a name call_tool has no branch
\* for, and reported the preset as applied.
C27_Witness ==
    /\ PresetCallEnded
    /\ preset.type = "adjustment"
    /\ Len(calls) = 1
    /\ calls[1].tool = "adjust_colors"
    /\ ~InTable(ServerTools, calls[1].tool)
    /\ reply.kind = "preset_applied"

\* C28 as stated: in every state reached by create_image, open_image and
\* create_layer calls, failing opens and opens of an image without layers
\* included, current_drawable is unset or a layer of current_image.
C28_DrawableOfCurrentImage ==
    current_drawable = NoDrawable \/ current_drawable.image = current_image

\* open_image has returned "Opened image" for an image without layers, and
\* current_drawable is still the layer of the image that was current before.
C28_Witness ==
    /\ pc = "returned"
    /\ request.tool = "open_image"
    /\ reply.kind = "done"
    /\ current_image \in Images
    /\ current_drawable # NoDrawable
    /\ current_drawable.image \in Images \ {current_image}

\* An open_image or create_image call has returned one of its error texts.
HandleCallFailed ==
    /\ pc = "returned"
    /\ request.via = "call_tool"
    /\ request.tool \in {"open_image", "create_image"}
    /\ reply.kind \in {"file_not_found", "failed", "handler_error", "error"}

\* C29 as stated: an open_image or create_image call that returns an error
\* (file not found, no image loaded, or an exception at any point of the
\* handler) leaves current_image and current_drawable as they were before
\* the call.
C29_FailedCallKeepsHandles ==
    HandleCallFailed =>
        /\ current_image = request.image
        /\ current_drawable = request.drawable

\* open_image has returned "Error opening image" after it had stored the
\* loaded image: current_image is no longer the image held before the call.
C29_Witness ==
    /\ HandleCallFailed
    /\ request.tool = "open_image"
    /\ reply.kind = "handler_error"
    /\ request.image \in Images
    /\ current_image \in Images \ {request.image}
    /\ current_drawable = request.drawable

\* The distinct files among the resolved files of the batch.
DistinctFiles == {files[i] : i \in 1..Len(files)}

\* C30 as stated: the resolved input of a batch is a set. A file matched by
\* more than one of the file patterns has one entry in the resolved files,
\* so one process_single_file, and the reported total counts distinct files.
C30_ResolvedInputIsSet ==
    /\ \A i, j \in 1..Len(files) : files[i] = files[j] => i = j
    /\ BatchEnded => reply.total = Cardinality(DistinctFiles)

\* A batch with the patterns "*.jpg" and "*" has ended: a file matched by
\* both was processed twice and counted twice in the total.
C30_Witness ==
    /\ BatchEnded
    /\ Get(batch, "file_pattern", << >>) = << "*.jpg", "*" >>
    /\ \E i, j \in 1..Len(files) :
            /\ i < j
            /\ files[i] = files[j]
            /\ "success" \in DOMAIN batch_results[i]
            /\ "success" \in DOMAIN batch_results[j]
    /\ reply.total = Len(files)
    /\ reply.total > Cardinality(DistinctFiles)


====
